---- MODULE Spec2Model ----
(***************************************************************************)
(* Model of the Intcode machine of src/src/intcode.rs: a flat growable     *)
(* memory of signed integers, a decode/execute loop with three parameter   *)
(* modes, and input/output vectors with cursors.  A machine is a record;   *)
(* every fallible function of the source is an operator that returns the   *)
(* machine it leaves behind together with the error it reports, so the     *)
(* memory growth done before a failure stays visible.                      *)
(***************************************************************************)
EXTENDS Integers, Sequences, FiniteSets, TLC

VARIABLES
    m,          \* the Machine struct
    pc,         \* "idle": between caller operations; "run": inside Machine::run
    lastOp,     \* the caller operation most recently called
    arg,        \* its arguments
    ret,        \* the values it returned
    result,     \* "ok", an OperationalError name, or "pending" inside run
    pre,        \* the Machine as it was when that operation was called
    drained,    \* concatenation of everything Machine::read has returned
    inputsDone, \* number of Input instructions that stored a value
    readsSinceRun, \* Machine::read calls since the last Machine::run, counted to 2
    cellOps,    \* number of caller get/set calls made so far
    reach,      \* larger of the program length and 1 + the highest address accessed
    lastStore,  \* <<address, value>> of the latest store into memory, or <<>>
    failed,     \* the error of the latest failed run, "none" after a later write or set
    dup,        \* the machines of the duplication scenario (SpecDup)
    dec,        \* the instruction word of the decoding scenario (SpecDecode)
    exe,        \* the machine of the single-instruction scenario (SpecExec)
    det,        \* the two machines of the determinism scenario (SpecDet)
    txt,        \* the program text of the construction scenario (SpecParse)
    wide,       \* the operands of the integer-width scenario (SpecWide)
    ring,       \* the amplifier ring of day seven (SpecRing)
    two         \* the day-two machine beside the Intcode machine (SpecTwo)

vars == <<m, pc, lastOp, arg, ret, result, pre, drained, inputsDone,
          readsSinceRun, cellOps, reach, lastStore, failed,
          dup, dec, exe, det, txt, wide, ring, two>>

----
\* Bounds of the exploration.

\* most instructions one machine executes (caps instruction_counter)
MaxInstr == 12
\* most values pushed into one machine
MaxInput == 3
\* most direct get/set calls by the caller
MaxCellOps == 2

\* values the caller pushes
InputValues == {0, 7}
\* addresses the caller reads and patches directly
CellAddrs == {0, 2}
\* values the caller patches in
CellValues == {0, 3, 99}

\* programs the machine is constructed from
Programs ==
    { <<99>>,
      <<3, 0, 4, 0, 99>>,
      <<3, 7, 3, 8, 3, 9, 99, 0, 0, 0>>,
      <<1, 9, 10, 3, 2, 3, 11, 0, 99, 30, 40, 50>>,
      <<109, 4, 99>>,
      <<4, 0, 104, 20, 99>>,
      <<1, 5, 6, 20, 99, 6, 7>>,
      <<3, 0, 4, 0, 1105, 1, 0>>,
      <<104, 5, 3, 1, 104, 6, 99>>,
      <<109, 2, 204, -1, 203, 3, 99>>,
      <<11101, 1, 2, 0, 99>>,
      <<103, 0, 99>>,
      <<104, 1, 10001, 9, 0, 0>>,
      <<109, 3, 209, -1, 99>> }

----
\* Memory.

\* the word at address a (addresses count from 0, sequences from 1)
Cell(mach, a) == mach.slots[a + 1]

Zeros(n) == [i \in 1..n |-> 0]

\* grow_memory_for that allocates one cell too many
grow_memory_for_one_extra(mach, index) ==
    IF index >= Len(mach.slots)
    THEN [mach EXCEPT !.slots = mach.slots \o Zeros(index + 2 - Len(mach.slots))]
    ELSE mach

\* grow_memory_for that does not grow for the address just past the end
grow_memory_for_strict(mach, index) ==
    IF index > Len(mach.slots)
    THEN [mach EXCEPT !.slots = mach.slots \o Zeros(index + 1 - Len(mach.slots))]
    ELSE mach

\* grow_memory_for that resizes to index, not index + 1
grow_memory_for_to_index(mach, index) ==
    IF index >= Len(mach.slots)
    THEN [mach EXCEPT !.slots = mach.slots \o Zeros(index - Len(mach.slots))]
    ELSE mach

grow_memory_for(mach, index) ==
    IF index >= Len(mach.slots)
    THEN [mach EXCEPT !.slots = mach.slots \o Zeros(index + 1 - Len(mach.slots))]
    ELSE mach

\* into_addr that takes the magnitude of a negative index
into_addr_magnitude(index) ==
    IF index < 0
    THEN [err |-> "none", addr |-> 0 - index]
    ELSE [err |-> "none", addr |-> index]

into_addr(index) ==
    IF index < 0
    THEN [err |-> "NegativeAddress", addr |-> 0]
    ELSE [err |-> "none", addr |-> index]

\* get that looks the address up without growing the memory first
get_without_growth(mach, index) ==
    LET a == into_addr(index) IN
    IF a.err # "none"
    THEN [m |-> mach, err |-> a.err, val |-> 0]
    ELSE IF a.addr < Len(mach.slots)
         THEN [m |-> mach, err |-> "none", val |-> Cell(mach, a.addr)]
         ELSE [m |-> mach, err |-> "OutOfRange", val |-> 0]

get(mach, index) ==
    LET a == into_addr(index) IN
    IF a.err # "none"
    THEN [m |-> mach, err |-> a.err, val |-> 0]
    ELSE LET g == grow_memory_for(mach, a.addr) IN
         IF a.addr < Len(g.slots)
         THEN [m |-> g, err |-> "none", val |-> Cell(g, a.addr)]
         ELSE [m |-> g, err |-> "OutOfRange", val |-> 0]

set(mach, index, new_value) ==
    LET a == into_addr(index) IN
    IF a.err # "none"
    THEN [m |-> mach, err |-> a.err]
    ELSE LET g == grow_memory_for(mach, a.addr) IN
         IF a.addr < Len(g.slots)
         THEN [m |-> [g EXCEPT !.slots[a.addr + 1] = new_value], err |-> "none"]
         ELSE [m |-> g, err |-> "OutOfRange"]

----
\* Decoder.

Opcode_from_int(i) ==
    CASE i = 1 -> [err |-> "none", opcode |-> "Add"]
      [] i = 2 -> [err |-> "none", opcode |-> "Multiply"]
      [] i = 3 -> [err |-> "none", opcode |-> "Input"]
      [] i = 4 -> [err |-> "none", opcode |-> "Output"]
      [] i = 5 -> [err |-> "none", opcode |-> "JumpIfTrue"]
      [] i = 6 -> [err |-> "none", opcode |-> "JumpIfFalse"]
      [] i = 7 -> [err |-> "none", opcode |-> "LessThan"]
      [] i = 8 -> [err |-> "none", opcode |-> "Equals"]
      [] i = 9 -> [err |-> "none", opcode |-> "RelativeBaseOffset"]
      [] i = 99 -> [err |-> "none", opcode |-> "Halt"]
      [] OTHER -> [err |-> "InvalidOpcode", opcode |-> "none"]

parameter_count(opcode) ==
    CASE opcode = "Add" -> 3
      [] opcode = "Multiply" -> 3
      [] opcode = "Input" -> 1
      [] opcode = "Output" -> 1
      [] opcode = "JumpIfTrue" -> 2
      [] opcode = "JumpIfFalse" -> 2
      [] opcode = "LessThan" -> 3
      [] opcode = "Equals" -> 3
      [] opcode = "RelativeBaseOffset" -> 1
      [] opcode = "Halt" -> 0

\* Some(digit) is <<digit>>, None is <<>>
ParameterMode_from_int(value) ==
    IF value = <<>>
    THEN [err |-> "none", mode |-> "Positional"]
    ELSE CASE value[1] = 0 -> [err |-> "none", mode |-> "Positional"]
           [] value[1] = 1 -> [err |-> "none", mode |-> "Immediate"]
           [] value[1] = 2 -> [err |-> "none", mode |-> "Relative"]
           [] OTHER -> [err |-> "InvalidParameterMode", mode |-> "none"]

\* the decimal digits of n, most significant first; no digit for 0
RECURSIVE DigitsOf(_)
DigitsOf(n) == IF n = 0 THEN <<>> ELSE Append(DigitsOf(n \div 10), n % 10)

\* mode_int_to_vec that splits any number into its digits instead of using the table
mode_int_to_vec_split(mode) == [err |-> "none", vec |-> DigitsOf(mode)]

mode_int_to_vec(mode) ==
    CASE mode = 0 -> [err |-> "none", vec |-> <<>>]
      [] mode = 1 -> [err |-> "none", vec |-> <<1>>]
      [] mode = 2 -> [err |-> "none", vec |-> <<2>>]
      [] mode = 10 -> [err |-> "none", vec |-> <<1, 0>>]
      [] mode = 11 -> [err |-> "none", vec |-> <<1, 1>>]
      [] mode = 12 -> [err |-> "none", vec |-> <<1, 2>>]
      [] mode = 20 -> [err |-> "none", vec |-> <<2, 0>>]
      [] mode = 21 -> [err |-> "none", vec |-> <<2, 1>>]
      [] mode = 22 -> [err |-> "none", vec |-> <<2, 2>>]
      [] mode = 100 -> [err |-> "none", vec |-> <<1, 0, 0>>]
      [] mode = 101 -> [err |-> "none", vec |-> <<1, 0, 1>>]
      [] mode = 102 -> [err |-> "none", vec |-> <<1, 0, 2>>]
      [] mode = 110 -> [err |-> "none", vec |-> <<1, 1, 0>>]
      [] mode = 111 -> [err |-> "none", vec |-> <<1, 1, 1>>]
      [] mode = 112 -> [err |-> "none", vec |-> <<1, 1, 2>>]
      [] mode = 120 -> [err |-> "none", vec |-> <<1, 2, 0>>]
      [] mode = 121 -> [err |-> "none", vec |-> <<1, 2, 1>>]
      [] mode = 122 -> [err |-> "none", vec |-> <<1, 2, 2>>]
      [] mode = 200 -> [err |-> "none", vec |-> <<2, 0, 0>>]
      [] mode = 201 -> [err |-> "none", vec |-> <<2, 0, 1>>]
      [] mode = 202 -> [err |-> "none", vec |-> <<2, 0, 2>>]
      [] mode = 210 -> [err |-> "none", vec |-> <<2, 1, 0>>]
      [] mode = 211 -> [err |-> "none", vec |-> <<2, 1, 1>>]
      [] mode = 212 -> [err |-> "none", vec |-> <<2, 1, 2>>]
      [] mode = 220 -> [err |-> "none", vec |-> <<2, 2, 0>>]
      [] mode = 221 -> [err |-> "none", vec |-> <<2, 2, 1>>]
      [] mode = 222 -> [err |-> "none", vec |-> <<2, 2, 2>>]
      [] OTHER -> [err |-> "InvalidModeDigits", vec |-> <<>>]

Reverse(s) == [i \in 1..Len(s) |-> s[Len(s) + 1 - i]]

\* op_and_mode_digits that converts the mode digits before the opcode
op_and_mode_digits_modes_first(value) ==
    IF value < 0
    THEN [err |-> "NegativeInstruction", opcode |-> "none", modes |-> <<>>]
    ELSE LET d == mode_int_to_vec(value \div 100) IN
         IF d.err # "none"
         THEN [err |-> d.err, opcode |-> "none", modes |-> <<>>]
         ELSE LET o == Opcode_from_int(value % 100) IN
              IF o.err # "none"
              THEN [err |-> o.err, opcode |-> "none", modes |-> <<>>]
              ELSE [err |-> "none", opcode |-> o.opcode, modes |-> Reverse(d.vec)]

\* op_and_mode_digits that leaves the mode digits most significant first
op_and_mode_digits_unreversed(value) ==
    IF value < 0
    THEN [err |-> "NegativeInstruction", opcode |-> "none", modes |-> <<>>]
    ELSE LET o == Opcode_from_int(value % 100) IN
         IF o.err # "none"
         THEN [err |-> o.err, opcode |-> "none", modes |-> <<>>]
         ELSE LET d == mode_int_to_vec(value \div 100) IN
              IF d.err # "none"
              THEN [err |-> d.err, opcode |-> "none", modes |-> <<>>]
              ELSE [err |-> "none", opcode |-> o.opcode, modes |-> d.vec]

op_and_mode_digits(value) ==
    IF value < 0
    THEN [err |-> "NegativeInstruction", opcode |-> "none", modes |-> <<>>]
    ELSE LET o == Opcode_from_int(value % 100) IN
         IF o.err # "none"
         THEN [err |-> o.err, opcode |-> "none", modes |-> <<>>]
         ELSE LET d == mode_int_to_vec(value \div 100) IN
              IF d.err # "none"
              THEN [err |-> d.err, opcode |-> "none", modes |-> <<>>]
              ELSE [err |-> "none", opcode |-> o.opcode, modes |-> Reverse(d.vec)]

\* the loop of read_instruction over the parameters i .. count-1
RECURSIVE read_parameters(_, _, _, _, _)
read_parameters(mach, count, mode_digits, i, parameters) ==
    IF i >= count
    THEN [m |-> mach, err |-> "none", parameters |-> parameters]
    ELSE LET md == ParameterMode_from_int(
                       IF i + 1 <= Len(mode_digits) THEN <<mode_digits[i + 1]>> ELSE <<>>)
         IN
         IF md.err # "none"
         THEN [m |-> mach, err |-> md.err, parameters |-> parameters]
         ELSE LET g == get(mach, mach.pointer + i + 1) IN
              IF g.err # "none"
              THEN [m |-> g.m, err |-> g.err, parameters |-> parameters]
              ELSE read_parameters(g.m, count, mode_digits, i + 1,
                       Append(parameters, [value |-> g.val, mode |-> md.mode]))

NoInstruction == [opcode |-> "none", parameters |-> <<>>]

\* read_instruction without the comparison of the mode digits with the arity
read_instruction_unchecked_modes(mach) ==
    LET with_parameters(opcode, ps) ==
            IF ps.err # "none"
            THEN [m |-> ps.m, err |-> ps.err, instruction |-> NoInstruction]
            ELSE [m |-> ps.m, err |-> "none",
                  instruction |-> [opcode |-> opcode, parameters |-> ps.parameters]]
        with_opcode(g, om) ==
            IF om.err # "none"
            THEN [m |-> g.m, err |-> om.err, instruction |-> NoInstruction]
            ELSE with_parameters(om.opcode,
                     read_parameters(g.m, parameter_count(om.opcode), om.modes, 0, <<>>))
        with_word(g) ==
            IF g.err # "none"
            THEN [m |-> g.m, err |-> g.err, instruction |-> NoInstruction]
            ELSE with_opcode(g, op_and_mode_digits(g.val))
    IN with_word(get(mach, mach.pointer))

read_instruction(mach) ==
    LET with_parameters(opcode, ps) ==
            IF ps.err # "none"
            THEN [m |-> ps.m, err |-> ps.err, instruction |-> NoInstruction]
            ELSE [m |-> ps.m, err |-> "none",
                  instruction |-> [opcode |-> opcode, parameters |-> ps.parameters]]
        with_opcode(g, om) ==
            IF om.err # "none"
            THEN [m |-> g.m, err |-> om.err, instruction |-> NoInstruction]
            ELSE IF Len(om.modes) > parameter_count(om.opcode)
            THEN [m |-> g.m, err |-> "TooManyParameterModes",
                  instruction |-> NoInstruction]
            ELSE with_parameters(om.opcode,
                     read_parameters(g.m, parameter_count(om.opcode), om.modes, 0, <<>>))
        with_word(g) ==
            IF g.err # "none"
            THEN [m |-> g.m, err |-> g.err, instruction |-> NoInstruction]
            ELSE with_opcode(g, op_and_mode_digits(g.val))
    IN with_word(get(mach, mach.pointer))

----
\* Executor.

\* get_parameter_val that leaves the relative base out of a Relative operand
get_parameter_val_without_base(mach, parameter) ==
    CASE parameter.mode = "Positional" -> get(mach, parameter.value)
      [] parameter.mode = "Immediate" ->
             [m |-> mach, err |-> "none", val |-> parameter.value]
      [] parameter.mode = "Relative" -> get(mach, parameter.value)

get_parameter_val(mach, parameter) ==
    CASE parameter.mode = "Positional" -> get(mach, parameter.value)
      [] parameter.mode = "Immediate" ->
             [m |-> mach, err |-> "none", val |-> parameter.value]
      [] parameter.mode = "Relative" ->
             get(mach, mach.relative_base + parameter.value)

\* set_at_parameter that takes an Immediate parameter as the address
set_at_parameter_immediate_address(mach, parameter, value) ==
    CASE parameter.mode = "Positional" -> set(mach, parameter.value, value)
      [] parameter.mode = "Relative" ->
             set(mach, parameter.value + mach.relative_base, value)
      [] parameter.mode = "Immediate" -> set(mach, parameter.value, value)

set_at_parameter(mach, parameter, value) ==
    CASE parameter.mode = "Positional" -> set(mach, parameter.value, value)
      [] parameter.mode = "Relative" ->
             set(mach, parameter.value + mach.relative_base, value)
      [] parameter.mode = "Immediate" ->
             [m |-> mach, err |-> "ImmediateModeStorage"]

\* Each arm of the match in execute_instruction yields the machine it leaves,
\* the error it raised and the value of advance_pointer.
Arm(mach, err, advance) == [m |-> mach, err |-> err, advance_pointer |-> advance]

\* execute_Halt that clears advance_pointer
execute_Halt_stays(mach, instruction) ==
    Arm([mach EXCEPT !.state = "Halted"], "none", FALSE)

execute_Halt(mach, instruction) ==
    Arm([mach EXCEPT !.state = "Halted"], "none", TRUE)

execute_Add(mach, instruction) ==
    LET left == get_parameter_val(mach, instruction.parameters[1]) IN
    IF left.err # "none" THEN Arm(left.m, left.err, TRUE) ELSE
    LET right == get_parameter_val(left.m, instruction.parameters[2]) IN
    IF right.err # "none" THEN Arm(right.m, right.err, TRUE) ELSE
    LET s == set_at_parameter(right.m, instruction.parameters[3],
                              left.val + right.val)
    IN Arm(s.m, s.err, TRUE)

execute_Multiply(mach, instruction) ==
    LET left == get_parameter_val(mach, instruction.parameters[1]) IN
    IF left.err # "none" THEN Arm(left.m, left.err, TRUE) ELSE
    LET right == get_parameter_val(left.m, instruction.parameters[2]) IN
    IF right.err # "none" THEN Arm(right.m, right.err, TRUE) ELSE
    LET s == set_at_parameter(right.m, instruction.parameters[3],
                              left.val * right.val)
    IN Arm(s.m, s.err, TRUE)

\* execute_Input with advance_pointer left true in the blocked arm
execute_Input_blocked_advances(mach, instruction) ==
    IF mach.input_pointer >= Len(mach.input)
    THEN Arm([mach EXCEPT !.state = "Blocked"], "none", TRUE)
    ELSE LET val == mach.input[mach.input_pointer + 1]
             s == set_at_parameter(mach, instruction.parameters[1], val)
         IN
         IF s.err # "none" THEN Arm(s.m, s.err, TRUE)
         ELSE Arm([s.m EXCEPT !.input_pointer = @ + 1], "none", TRUE)

\* execute_Input taking the first value ever pushed instead of the one at the cursor
execute_Input_takes_first(mach, instruction) ==
    IF mach.input_pointer >= Len(mach.input)
    THEN Arm([mach EXCEPT !.state = "Blocked"], "none", FALSE)
    ELSE LET val == mach.input[1]
             s == set_at_parameter(mach, instruction.parameters[1], val)
         IN
         IF s.err # "none" THEN Arm(s.m, s.err, TRUE)
         ELSE Arm([s.m EXCEPT !.input_pointer = @ + 1], "none", TRUE)

\* execute_Input taking the newest pushed value instead of the one at the cursor
execute_Input_takes_last(mach, instruction) ==
    IF mach.input_pointer >= Len(mach.input)
    THEN Arm([mach EXCEPT !.state = "Blocked"], "none", FALSE)
    ELSE LET val == mach.input[Len(mach.input)]
             s == set_at_parameter(mach, instruction.parameters[1], val)
         IN
         IF s.err # "none" THEN Arm(s.m, s.err, TRUE)
         ELSE Arm([s.m EXCEPT !.input_pointer = @ + 1], "none", TRUE)

\* execute_Input that moves the input cursor before the store is known to succeed
execute_Input_consumes_first(mach, instruction) ==
    IF mach.input_pointer >= Len(mach.input)
    THEN Arm([mach EXCEPT !.state = "Blocked"], "none", FALSE)
    ELSE LET val == mach.input[mach.input_pointer + 1]
             s == set_at_parameter([mach EXCEPT !.input_pointer = @ + 1],
                                   instruction.parameters[1], val)
         IN Arm(s.m, s.err, TRUE)

\* execute_Input that rejects an Immediate write parameter before it looks
\* at the input vector
execute_Input_checks_mode_first(mach, instruction) ==
    IF instruction.parameters[1].mode = "Immediate"
    THEN Arm(mach, "ImmediateModeStorage", TRUE)
    ELSE IF mach.input_pointer >= Len(mach.input)
    THEN Arm([mach EXCEPT !.state = "Blocked"], "none", FALSE)
    ELSE LET val == mach.input[mach.input_pointer + 1]
             s == set_at_parameter(mach, instruction.parameters[1], val)
         IN
         IF s.err # "none" THEN Arm(s.m, s.err, TRUE)
         ELSE Arm([s.m EXCEPT !.input_pointer = @ + 1], "none", TRUE)

execute_Input(mach, instruction) ==
    IF mach.input_pointer >= Len(mach.input)
    THEN Arm([mach EXCEPT !.state = "Blocked"], "none", FALSE)
    ELSE LET val == mach.input[mach.input_pointer + 1]
             s == set_at_parameter(mach, instruction.parameters[1], val)
         IN
         IF s.err # "none" THEN Arm(s.m, s.err, TRUE)
         ELSE Arm([s.m EXCEPT !.input_pointer = @ + 1], "none", TRUE)

\* execute_Output that puts the value in front of the output vector
execute_Output_prepends(mach, instruction) ==
    LET v == get_parameter_val(mach, instruction.parameters[1]) IN
    IF v.err # "none" THEN Arm(v.m, v.err, TRUE)
    ELSE Arm([v.m EXCEPT !.output = <<v.val>> \o @], "none", TRUE)

execute_Output(mach, instruction) ==
    LET v == get_parameter_val(mach, instruction.parameters[1]) IN
    IF v.err # "none" THEN Arm(v.m, v.err, TRUE)
    ELSE Arm([v.m EXCEPT !.output = Append(@, v.val)], "none", TRUE)

\* execute_Jump that jumps to the raw second parameter, not its resolved value
execute_Jump_raw_target(mach, instruction, when_nonzero) ==
    LET v == get_parameter_val(mach, instruction.parameters[1]) IN
    IF v.err # "none" THEN Arm(v.m, v.err, TRUE) ELSE
    IF (v.val # 0) = when_nonzero
    THEN LET a == into_addr(instruction.parameters[2].value) IN
         IF a.err # "none" THEN Arm(v.m, a.err, TRUE)
         ELSE Arm([v.m EXCEPT !.pointer = a.addr], "none", FALSE)
    ELSE Arm(v.m, "none", TRUE)

\* JumpIfTrue (when_nonzero = TRUE) and JumpIfFalse (when_nonzero = FALSE)
execute_Jump(mach, instruction, when_nonzero) ==
    LET v == get_parameter_val(mach, instruction.parameters[1]) IN
    IF v.err # "none" THEN Arm(v.m, v.err, TRUE) ELSE
    IF (v.val # 0) = when_nonzero
    THEN LET t == get_parameter_val(v.m, instruction.parameters[2]) IN
         IF t.err # "none" THEN Arm(t.m, t.err, TRUE) ELSE
         LET a == into_addr(t.val) IN
         IF a.err # "none" THEN Arm(t.m, a.err, TRUE)
         ELSE Arm([t.m EXCEPT !.pointer = a.addr], "none", FALSE)
    ELSE Arm(v.m, "none", TRUE)

\* execute_LessThan that compares with <=
execute_LessThan_or_equal(mach, instruction) ==
    LET left == get_parameter_val(mach, instruction.parameters[1]) IN
    IF left.err # "none" THEN Arm(left.m, left.err, TRUE) ELSE
    LET right == get_parameter_val(left.m, instruction.parameters[2]) IN
    IF right.err # "none" THEN Arm(right.m, right.err, TRUE) ELSE
    LET s == set_at_parameter(right.m, instruction.parameters[3],
                              IF left.val <= right.val THEN 1 ELSE 0)
    IN Arm(s.m, s.err, TRUE)

execute_LessThan(mach, instruction) ==
    LET left == get_parameter_val(mach, instruction.parameters[1]) IN
    IF left.err # "none" THEN Arm(left.m, left.err, TRUE) ELSE
    LET right == get_parameter_val(left.m, instruction.parameters[2]) IN
    IF right.err # "none" THEN Arm(right.m, right.err, TRUE) ELSE
    LET s == set_at_parameter(right.m, instruction.parameters[3],
                              IF left.val < right.val THEN 1 ELSE 0)
    IN Arm(s.m, s.err, TRUE)

execute_Equals(mach, instruction) ==
    LET left == get_parameter_val(mach, instruction.parameters[1]) IN
    IF left.err # "none" THEN Arm(left.m, left.err, TRUE) ELSE
    LET right == get_parameter_val(left.m, instruction.parameters[2]) IN
    IF right.err # "none" THEN Arm(right.m, right.err, TRUE) ELSE
    LET s == set_at_parameter(right.m, instruction.parameters[3],
                              IF left.val = right.val THEN 1 ELSE 0)
    IN Arm(s.m, s.err, TRUE)

\* execute_RelativeBaseOffset that assigns the operand instead of adding it
execute_RelativeBaseOffset_assigns(mach, instruction) ==
    LET v == get_parameter_val(mach, instruction.parameters[1]) IN
    IF v.err # "none" THEN Arm(v.m, v.err, TRUE)
    ELSE Arm([v.m EXCEPT !.relative_base = v.val], "none", TRUE)

execute_RelativeBaseOffset(mach, instruction) ==
    LET v == get_parameter_val(mach, instruction.parameters[1]) IN
    IF v.err # "none" THEN Arm(v.m, v.err, TRUE)
    ELSE Arm([v.m EXCEPT !.relative_base = @ + v.val], "none", TRUE)

execute_instruction(mach, instruction) ==
    IF mach.state # "Running"
    THEN [m |-> mach, err |-> "none"]
    ELSE LET op == instruction.opcode
             finish(a) ==
                 IF a.err # "none"
                 THEN [m |-> a.m, err |-> a.err]
                 ELSE [m |-> [a.m EXCEPT
                                !.pointer = IF a.advance_pointer
                                            THEN @ + parameter_count(op) + 1 ELSE @,
                                !.instruction_counter = @ + 1],
                       err |-> "none"]
         IN
         finish(CASE op = "Halt" -> execute_Halt(mach, instruction)
                  [] op = "Add" -> execute_Add(mach, instruction)
                  [] op = "Multiply" -> execute_Multiply(mach, instruction)
                  [] op = "Input" -> execute_Input(mach, instruction)
                  [] op = "Output" -> execute_Output(mach, instruction)
                  [] op = "JumpIfTrue" -> execute_Jump(mach, instruction, TRUE)
                  [] op = "JumpIfFalse" -> execute_Jump(mach, instruction, FALSE)
                  [] op = "LessThan" -> execute_LessThan(mach, instruction)
                  [] op = "Equals" -> execute_Equals(mach, instruction)
                  [] op = "RelativeBaseOffset" ->
                           execute_RelativeBaseOffset(mach, instruction))

----
\* Run loop.

\* run_iteration that moves the pointer past an instruction that failed
run_iteration_skips_failed(mach) ==
    LET skip(d, x) ==
            IF x.err # "none"
            THEN [m |-> [x.m EXCEPT !.pointer =
                                        @ + parameter_count(d.instruction.opcode) + 1],
                  err |-> x.err]
            ELSE x
        execute(d) ==
            IF d.err # "none"
            THEN [m |-> d.m, err |-> d.err]
            ELSE skip(d, execute_instruction(d.m, d.instruction))
    IN execute(read_instruction(mach))

\* one pass through the body of the loop of Machine::run, up to the match
run_iteration(mach) ==
    LET execute(d) ==
            IF d.err # "none"
            THEN [m |-> d.m, err |-> d.err]
            ELSE execute_instruction(d.m, d.instruction)
    IN execute(read_instruction(mach))

\* run_returns with the wrong variant in the second arm of the match
run_returns_on_running(state) == state = "Halted" \/ state = "Running"

\* the match at the end of the loop body: does run return Ok now?
run_returns(state) == state = "Halted" \/ state = "Blocked"

\* Machine::run as one call: the loop repeated until it returns; done is
\* FALSE when it has not returned within fuel further passes
RECURSIVE run(_, _)
run(mach, fuel) ==
    LET again(r) ==
            IF r.err # "none"
            THEN [m |-> r.m, err |-> r.err, done |-> TRUE]
            ELSE IF run_returns(r.m.state)
            THEN [m |-> r.m, err |-> "none", done |-> TRUE]
            ELSE IF fuel = 0
            THEN [m |-> r.m, err |-> "none", done |-> FALSE]
            ELSE run(r.m, fuel - 1)
    IN again(run_iteration(mach))

----
\* Caller operations on the queues.

\* write that wakes every machine that is not Running
write_wakes_halted(mach, input) ==
    LET pushed == [mach EXCEPT !.input = Append(@, input)] IN
    IF pushed.state # "Running"
    THEN [pushed EXCEPT !.state = "Running"]
    ELSE pushed

\* write that inserts at the front of the input vector
write_prepends(mach, input) ==
    LET pushed == [mach EXCEPT !.input = <<input>> \o @] IN
    IF pushed.state = "Blocked"
    THEN [pushed EXCEPT !.state = "Running"]
    ELSE pushed

\* write that pushes the value and leaves the state alone
write_never_wakes(mach, input) == [mach EXCEPT !.input = Append(@, input)]

write(mach, input) ==
    LET pushed == [mach EXCEPT !.input = Append(@, input)] IN
    IF pushed.state = "Blocked"
    THEN [pushed EXCEPT !.state = "Running"]
    ELSE pushed

\* read that forgets to move output_pointer
read_keeps_cursor(mach) ==
    IF mach.output_pointer >= Len(mach.output)
    THEN [m |-> mach, val |-> <<>>]
    ELSE [m |-> mach,
          val |-> SubSeq(mach.output, mach.output_pointer + 1, Len(mach.output))]

\* read that leaves output_pointer one short of the end
read_cursor_short(mach) ==
    IF mach.output_pointer >= Len(mach.output)
    THEN [m |-> mach, val |-> <<>>]
    ELSE [m |-> [mach EXCEPT !.output_pointer = Len(mach.output) - 1],
          val |-> SubSeq(mach.output, mach.output_pointer + 1, Len(mach.output))]

\* read that moves output_pointer one past the end
read_cursor_past_end(mach) ==
    IF mach.output_pointer >= Len(mach.output)
    THEN [m |-> mach, val |-> <<>>]
    ELSE [m |-> [mach EXCEPT !.output_pointer = Len(mach.output) + 1],
          val |-> SubSeq(mach.output, mach.output_pointer + 1, Len(mach.output))]

read(mach) ==
    IF mach.output_pointer >= Len(mach.output)
    THEN [m |-> mach, val |-> <<>>]
    ELSE [m |-> [mach EXCEPT !.output_pointer = Len(mach.output)],
          val |-> SubSeq(mach.output, mach.output_pointer + 1, Len(mach.output))]

\* peek that ignores output_pointer
peek_counts_all(mach) ==
    IF mach.output_pointer >= Len(mach.output)
    THEN 0
    ELSE Len(mach.output)

peek(mach) ==
    IF mach.output_pointer >= Len(mach.output)
    THEN 0
    ELSE Len(mach.output) - mach.output_pointer

from_slots(slots) ==
    [slots |-> slots,
     pointer |-> 0,
     state |-> "Running",
     relative_base |-> 0,
     input_pointer |-> 0,
     input |-> <<>>,
     output_pointer |-> 0,
     output |-> <<>>,
     instruction_counter |-> 0]

----
\* What one pass of the run loop touches, read off the instruction at the
\* pointer: the addresses it accesses, in order, and the store it performs.
\* These feed the history variables reach and lastStore.

\* memory as a total function of the address: cells not yet allocated read 0
CellOrZero(mach, a) == IF a < Len(mach.slots) THEN Cell(mach, a) ELSE 0

\* the address a write parameter denotes
WriteAddress(mach, parameter) ==
    IF parameter.mode = "Relative"
    THEN mach.relative_base + parameter.value
    ELSE parameter.value

\* the value an operand resolves to when its address is valid
Operand(mach, parameter) ==
    IF parameter.mode = "Immediate"
    THEN parameter.value
    ELSE IF WriteAddress(mach, parameter) < 0
    THEN 0
    ELSE CellOrZero(mach, WriteAddress(mach, parameter))

SetMax(S) == CHOOSE x \in S : \A y \in S : y <= x

Larger(a, b) == IF a >= b THEN a ELSE b

\* the operands an instruction resolves, in the order of execute_instruction
OperandAccesses(mach, instruction) ==
    LET op == instruction.opcode
        p == instruction.parameters
        R(i) == [kind |-> "read", parameter |-> p[i]]
        W(i) == [kind |-> "write", parameter |-> p[i]]
    IN
    CASE op \in {"Add", "Multiply", "LessThan", "Equals"} -> <<R(1), R(2), W(3)>>
      [] op = "Input" ->
             IF mach.input_pointer >= Len(mach.input) THEN <<>> ELSE <<W(1)>>
      [] op \in {"Output", "RelativeBaseOffset"} -> <<R(1)>>
      [] op = "JumpIfTrue" ->
             IF Operand(mach, p[1]) # 0 THEN <<R(1), R(2)>> ELSE <<R(1)>>
      [] op = "JumpIfFalse" ->
             IF Operand(mach, p[1]) = 0 THEN <<R(1), R(2)>> ELSE <<R(1)>>
      [] op = "Halt" -> <<>>

\* the addresses among accesses i.. that are reached before the first failure;
\* done tells whether every access succeeded
RECURSIVE WalkAccesses(_, _, _, _)
WalkAccesses(mach, accesses, i, reached) ==
    IF i > Len(accesses)
    THEN [addrs |-> reached, done |-> TRUE]
    ELSE LET a == accesses[i] IN
         IF a.parameter.mode = "Immediate"
         THEN IF a.kind = "read"
              THEN WalkAccesses(mach, accesses, i + 1, reached)
              ELSE [addrs |-> reached, done |-> FALSE]
         ELSE IF WriteAddress(mach, a.parameter) < 0
         THEN [addrs |-> reached, done |-> FALSE]
         ELSE WalkAccesses(mach, accesses, i + 1,
                           reached \cup {WriteAddress(mach, a.parameter)})

\* the addresses one pass of the run loop accesses from machine mach
Accessed(mach) ==
    LET trace(d) ==
            IF d.err # "none"
            THEN {mach.pointer}
            ELSE (mach.pointer ..
                      mach.pointer + parameter_count(d.instruction.opcode))
                 \cup (IF mach.state = "Running"
                       THEN WalkAccesses(mach,
                                OperandAccesses(mach, d.instruction), 1, {}).addrs
                       ELSE {})
    IN trace(read_instruction(mach))

NoStore == [stores |-> FALSE, addr |-> 0, val |-> 0, lenBefore |-> 0]

\* the store one pass of the run loop performs from machine mach, if any:
\* its address, its value, and the memory length just before the store
PendingStore(mach) ==
    LET store(d) ==
            IF d.err # "none" \/ mach.state # "Running" THEN NoStore ELSE
            LET op == d.instruction.opcode
                p == d.instruction.parameters
                acc == OperandAccesses(mach, d.instruction)
            IN
            IF acc = <<>> \/ acc[Len(acc)].kind # "write" THEN NoStore ELSE
            IF ~WalkAccesses(mach, acc, 1, {}).done THEN NoStore ELSE
            [stores |-> TRUE,
             addr |-> WriteAddress(mach, p[Len(p)]),
             val |-> CASE op = "Add" -> Operand(mach, p[1]) + Operand(mach, p[2])
                       [] op = "Multiply" ->
                              Operand(mach, p[1]) * Operand(mach, p[2])
                       [] op = "LessThan" ->
                              IF Operand(mach, p[1]) < Operand(mach, p[2])
                              THEN 1 ELSE 0
                       [] op = "Equals" ->
                              IF Operand(mach, p[1]) = Operand(mach, p[2])
                              THEN 1 ELSE 0
                       [] op = "Input" -> mach.input[mach.input_pointer + 1],
             lenBefore |->
                 Larger(Len(mach.slots),
                        1 + SetMax((mach.pointer .. mach.pointer + Len(p))
                                   \cup WalkAccesses(mach, SubSeq(acc, 1, Len(acc) - 1),
                                                     1, {}).addrs))]
    IN store(read_instruction(mach))

----
\* The machine and its caller.

\* the duplication and decoding scenarios are not running
DupParked == [phase |-> "parked"]
DecParked == [phase |-> "parked"]
ExeParked == [phase |-> "parked"]
DetParked == [phase |-> "parked"]
TxtParked == [phase |-> "parked"]
WideParked == [phase |-> "parked"]
RingParked == [phase |-> "parked"]
TwoParked == [phase |-> "parked"]

Init ==
    /\ m \in {from_slots(p) : p \in Programs}
    /\ pc = "idle"
    /\ lastOp = "from_slots"
    /\ arg = <<>>
    /\ ret = <<>>
    /\ result = "ok"
    /\ pre = m
    /\ drained = <<>>
    /\ inputsDone = 0
    /\ readsSinceRun = 0
    /\ cellOps = 0
    /\ reach = Len(m.slots)
    /\ lastStore = <<>>
    /\ failed = "none"
    /\ dup = DupParked
    /\ dec = DecParked
    /\ exe = ExeParked
    /\ det = DetParked
    /\ txt = TxtParked
    /\ wide = WideParked
    /\ ring = RingParked
    /\ two = TwoParked

\* the caller calls Machine::run
RunCall ==
    /\ pc = "idle"
    /\ pc' = "run"
    /\ lastOp' = "run"
    /\ arg' = <<>>
    /\ ret' = <<>>
    /\ result' = "pending"
    /\ pre' = m
    /\ readsSinceRun' = 0
    /\ UNCHANGED <<m, drained, inputsDone, cellOps, reach, lastStore, failed,
                   dup, dec, exe, det, txt, wide, ring, two>>

\* does this pass of the loop complete an Input instruction (store a value)?
StoresInput(mach, after) ==
    /\ mach.state = "Running"
    /\ after.err = "none"
    /\ after.m.state = "Running"
    /\ LET d == read_instruction(mach) IN
       d.err = "none" /\ d.instruction.opcode = "Input"

\* one pass of the loop of Machine::run
RunStep ==
    /\ pc = "run"
    /\ m.instruction_counter < MaxInstr
    /\ \E r \in {run_iteration(m)} :
       /\ m' = r.m
       /\ inputsDone' = IF StoresInput(m, r) THEN inputsDone + 1 ELSE inputsDone
       /\ IF r.err # "none"
          THEN pc' = "idle" /\ result' = r.err
          ELSE IF run_returns(r.m.state)
          THEN pc' = "idle" /\ result' = "ok"
          ELSE pc' = "run" /\ result' = "pending"
       /\ failed' = IF r.err # "none" THEN r.err ELSE failed
    /\ reach' = Larger(reach, 1 + SetMax(Accessed(m)))
    /\ \E st \in {PendingStore(m)} :
          lastStore' = IF st.stores THEN <<st.addr, st.val>> ELSE lastStore
    /\ UNCHANGED <<lastOp, arg, ret, pre, drained, readsSinceRun, cellOps, dup, dec, exe, det, txt, wide, ring, two>>

\* the caller calls Machine::write
Write ==
    /\ pc = "idle"
    /\ Len(m.input) < MaxInput
    /\ \E v \in InputValues :
          /\ m' = write(m, v)
          /\ arg' = <<v>>
    /\ lastOp' = "write"
    /\ ret' = <<>>
    /\ result' = "ok"
    /\ pre' = m
    /\ failed' = "none"
    /\ UNCHANGED <<pc, drained, inputsDone, readsSinceRun, cellOps, reach, lastStore,
                   dup, dec, exe, det, txt, wide, ring, two>>

\* the caller calls Machine::read
Read ==
    /\ pc = "idle"
    /\ LET r == read(m) IN
       /\ m' = r.m
       /\ ret' = r.val
       /\ drained' = drained \o r.val
    /\ lastOp' = "read"
    /\ arg' = <<>>
    /\ result' = "ok"
    /\ pre' = m
    /\ readsSinceRun' = IF readsSinceRun < 2 THEN readsSinceRun + 1 ELSE 2
    /\ UNCHANGED <<pc, inputsDone, cellOps, reach, lastStore, failed,
                   dup, dec, exe, det, txt, wide, ring, two>>

\* the caller calls Machine::peek
Peek ==
    /\ pc = "idle"
    /\ ret' = <<peek(m)>>
    /\ lastOp' = "peek"
    /\ arg' = <<>>
    /\ result' = "ok"
    /\ pre' = m
    /\ UNCHANGED <<m, pc, drained, inputsDone, readsSinceRun, cellOps, reach,
                   lastStore, failed, dup, dec, exe, det, txt, wide, ring, two>>

\* the caller calls Machine::get
Get ==
    /\ pc = "idle"
    /\ cellOps < MaxCellOps
    /\ \E a \in CellAddrs :
          LET r == get(m, a) IN
          /\ m' = r.m
          /\ arg' = <<a>>
          /\ ret' = IF r.err = "none" THEN <<r.val>> ELSE <<>>
          /\ result' = IF r.err = "none" THEN "ok" ELSE r.err
          /\ reach' = IF a >= 0 THEN Larger(reach, a + 1) ELSE reach
    /\ lastOp' = "get"
    /\ pre' = m
    /\ cellOps' = cellOps + 1
    /\ UNCHANGED <<pc, drained, inputsDone, readsSinceRun, lastStore, failed,
                   dup, dec, exe, det, txt, wide, ring, two>>

\* the caller calls Machine::set
Set ==
    /\ pc = "idle"
    /\ cellOps < MaxCellOps
    /\ \E a \in CellAddrs, v \in CellValues :
          LET r == set(m, a, v) IN
          /\ m' = r.m
          /\ arg' = <<a, v>>
          /\ result' = IF r.err = "none" THEN "ok" ELSE r.err
          /\ reach' = IF a >= 0 THEN Larger(reach, a + 1) ELSE reach
          /\ lastStore' = IF a >= 0 THEN <<a, v>> ELSE lastStore
    /\ lastOp' = "set"
    /\ ret' = <<>>
    /\ pre' = m
    /\ cellOps' = cellOps + 1
    /\ failed' = "none"
    /\ UNCHANGED <<pc, drained, inputsDone, readsSinceRun, dup, dec, exe, det, txt, wide, ring, two>>

Next ==
    \/ RunCall
    \/ RunStep
    \/ Write
    \/ Read
    \/ Peek
    \/ Get
    \/ Set

Spec == Init /\ [][Next]_vars

----
\* Helpers for the properties.

\* two machines hold the same memory contents, whatever their lengths
SameContents(a, b) ==
    \A i \in 0..(Len(a.slots) + Len(b.slots)) : CellOrZero(a, i) = CellOrZero(b, i)

\* everything but the memory length and the instruction counter agrees
SameRegistersAndQueues(a, b) ==
    /\ a.pointer = b.pointer
    /\ a.relative_base = b.relative_base
    /\ a.input_pointer = b.input_pointer
    /\ a.input = b.input
    /\ a.output_pointer = b.output_pointer
    /\ a.output = b.output

\* run has returned to the caller
RunReturned == pc = "idle" /\ lastOp = "run"

\* the machine is Running and the instruction at its pointer decodes to opcode
AboutToExecute(mach, opcode) ==
    /\ mach.state = "Running"
    /\ LET d == read_instruction(mach) IN
       d.err = "none" /\ d.instruction.opcode = opcode

----
\* C1: whenever run returns Ok the machine is Blocked or Halted, never
\* Running, whatever the program, the input pushed and the state at the call.
C1_RunReturnsBlockedOrHalted ==
    (RunReturned /\ result = "ok") => m.state \in {"Blocked", "Halted"}

\* run returned Ok in state Halted after executing several instructions
C1_Witness ==
    /\ RunReturned /\ result = "ok"
    /\ pre.state = "Running"
    /\ m.state = "Halted"
    /\ m.instruction_counter >= pre.instruction_counter + 3

\* C2: Halted is terminal: no push, run, drain, peek, get or set takes a
\* Halted machine to another state.
C2_HaltedIsTerminal == [][m.state = "Halted" => m'.state = "Halted"]_vars

\* a value was pushed onto a Halted machine, which is still Halted
C2_Witness ==
    /\ lastOp = "write"
    /\ pre.state = "Halted"
    /\ m.state = "Halted"
    /\ Len(m.input) = Len(pre.input) + 1

\* C3: run on a Halted machine returns Ok, executes nothing and leaves the
\* memory contents and length, the pointer, the relative base and both queues
\* as they were.
C3_RunOnHaltedIsNoOp ==
    (RunReturned /\ pre.state = "Halted") => (result = "ok" /\ m = pre)

\* C4: an Input instruction executed with no unconsumed input sets the state
\* to Blocked, returns from run, and leaves the pointer, the memory contents,
\* the relative base, the input cursor and the output queue unchanged, so the
\* next run decodes the same instruction.
C4_InputBlocksInPlace ==
    [][(pc = "run" /\ AboutToExecute(m, "Input")
            /\ m.input_pointer >= Len(m.input))
       => /\ m'.state = "Blocked"
          /\ pc' = "idle" /\ result' = "ok"
          /\ SameRegistersAndQueues(m, m')
          /\ SameContents(m, m')
          /\ read_instruction(m').err = "none"
          /\ read_instruction(m').instruction = read_instruction(m).instruction
      ]_vars

\* run returned Blocked at an Input instruction reached after earlier ones
C4_Witness ==
    /\ RunReturned /\ result = "ok"
    /\ pre.state = "Running"
    /\ m.state = "Blocked"
    /\ m.pointer > 0
    /\ m.input_pointer = Len(m.input)
    /\ read_instruction(m).instruction.opcode = "Input"

\* C5: write appends its value to the end of the input vector, turns Blocked
\* into Running and leaves Running and Halted as they are, and never changes
\* the memory, the pointer, the relative base, the input cursor or the output.
C5_PushAppendsAndWakes ==
    lastOp = "write" =>
        /\ m.input = Append(pre.input, arg[1])
        /\ m.state = (IF pre.state = "Blocked" THEN "Running" ELSE pre.state)
        /\ m.slots = pre.slots
        /\ m.pointer = pre.pointer
        /\ m.relative_base = pre.relative_base
        /\ m.input_pointer = pre.input_pointer
        /\ m.output = pre.output
        /\ m.output_pointer = pre.output_pointer

\* a second, different value was pushed onto a Blocked machine
C5_Witness ==
    /\ lastOp = "write"
    /\ pre.state = "Blocked"
    /\ m.state = "Running"
    /\ Len(pre.input) = 1
    /\ pre.input[1] # arg[1]

\* C6: a Blocked machine leaves Blocked only through write; run on a Blocked
\* machine returns Ok and leaves the state, the memory, the pointer, the
\* relative base and the queues unchanged, however often it is repeated, and
\* read and peek never change the state.
C6_BlockedUntilPush ==
    [][/\ (m.state = "Blocked" /\ m'.state # "Blocked") => lastOp' = "write"
       /\ (pc = "run" /\ m.state = "Blocked")
              => /\ pc' = "idle" /\ result' = "ok"
                 /\ m'.state = "Blocked"
                 /\ m'.slots = m.slots
                 /\ SameRegistersAndQueues(m, m')
      ]_vars

\* C7: input is consumed first-in first-out and exactly once: the k-th Input
\* instruction that completes stores the k-th value ever pushed at the address
\* of its write parameter and advances the pointer by 2; pushed values are
\* never altered, skipped or stored twice.
C7_InputFifoExactlyOnce ==
    [][/\ SubSeq(m'.input, 1, Len(m.input)) = m.input
       /\ inputsDone' = m'.input_pointer
       /\ inputsDone' \in {inputsDone, inputsDone + 1}
       /\ inputsDone' = inputsDone + 1 =>
              LET p == read_instruction(m).instruction.parameters[1] IN
              /\ inputsDone + 1 <= Len(m.input)
              /\ Cell(m', WriteAddress(m, p)) = m.input[inputsDone + 1]
              /\ m'.pointer = m.pointer + 2
      ]_vars

\* two different values, the second pushed after the first was consumed,
\* have both been stored
C7_Witness ==
    /\ RunReturned
    /\ inputsDone = 2
    /\ Len(pre.input) = 2
    /\ pre.input_pointer = 1
    /\ pre.input[1] # pre.input[2]

\* C8: read returns exactly the values output since the previous read, in the
\* order produced; the concatenation of all read results is at every moment a
\* prefix of the output produced and, right after a read, all of it.
C8_DrainDeliversEachOutputOnce ==
    /\ Len(drained) <= Len(m.output)
    /\ SubSeq(m.output, 1, Len(drained)) = drained
    /\ Len(drained) = m.output_pointer
    /\ lastOp = "read" =>
           /\ drained = m.output
           /\ ret = SubSeq(pre.output, pre.output_pointer + 1, Len(pre.output))
           /\ Len(drained) = Len(ret) + pre.output_pointer

\* a read returned the output of the latest run after an earlier read had
\* returned the output of an earlier run
C8_Witness ==
    /\ lastOp = "read"
    /\ Len(ret) >= 1
    /\ Len(drained) > Len(ret)
    /\ drained[1] # ret[1]

\* C9: a read that follows another read with no run in between returns the
\* empty sequence, in every machine state.
C9_SecondDrainIsEmpty ==
    (lastOp = "read" /\ readsSinceRun = 2) => ret = <<>>

\* the second read after a run whose output the first read returned
C9_Witness ==
    /\ lastOp = "read"
    /\ readsSinceRun = 2
    /\ ret = <<>>
    /\ Len(m.output) >= 1
    /\ m.output_pointer = Len(m.output)

\* C10: peek returns the number of values output and not yet read, which is
\* the length of what a read called next returns, and changes nothing in the
\* machine, so that read returns what it would have returned without the peek.
C10_PeekCountsUndrained ==
    lastOp = "peek" =>
        /\ ret = <<Len(m.output) - Len(drained)>>
        /\ ret = <<Len(read(m).val)>>
        /\ m = pre
        /\ read(m) = read(pre)

\* peek saw fresh output after earlier output had been read
C10_Witness ==
    /\ lastOp = "peek"
    /\ ret[1] >= 1
    /\ Len(drained) >= 1

----
\* Properties of memory growth and of failing instructions.

\* run has just returned an operational error
RunFails == pc = "run" /\ result' \notin {"ok", "pending"}

\* writing v at address a, at or past the end of old, produced new
GrownByWrite(old, new, a, v) ==
    /\ Len(new.slots) = a + 1
    /\ Cell(new, a) = v
    /\ \A i \in Len(old.slots)..(a - 1) : Cell(new, i) = 0
    /\ \A i \in 0..(Len(old.slots) - 1) : Cell(new, i) = Cell(old, i)

\* C13 (as claimed): when decode or execute fails, run returns the error and
\* the memory contents and length, the pointer, the relative base, the state,
\* the input cursor and the output queue are those left by the last completed
\* instruction.
C13_ErrorLeavesNoTrace ==
    [][RunFails => /\ pc' = "idle"
                   /\ m'.slots = m.slots
                   /\ m'.state = m.state
                   /\ SameRegistersAndQueues(m, m')
      ]_vars

\* C13 (amended): when decode or execute fails, run returns the error and the
\* memory contents (cells not yet allocated reading 0), the pointer, the
\* relative base, the state, the input cursor and the output queue are those
\* left by the last completed instruction; only the memory length may have
\* grown, by zero cells.
C13_ErrorLeavesContents ==
    [][RunFails => /\ pc' = "idle"
                   /\ SameContents(m, m')
                   /\ Len(m'.slots) >= Len(m.slots)
                   /\ m'.state = m.state
                   /\ m'.instruction_counter = m.instruction_counter
                   /\ SameRegistersAndQueues(m, m')
      ]_vars

\* run failed in an instruction that had grown the memory, after completing
\* an Output instruction in the same run
C13_Witness ==
    /\ RunReturned
    /\ result = "ImmediateModeStorage"
    /\ Len(m.slots) > Len(pre.slots)
    /\ Len(m.output) > Len(pre.output)

\* C14: writing v at an address a at or past the current end of memory, by
\* set or by a storing instruction, makes the length a + 1, puts v in cell a,
\* zero-fills the cells from the old end up to a - 1 and keeps the old cells.
C14_WriteBeyondEndGrows ==
    [][/\ (lastOp' = "set" /\ cellOps' = cellOps + 1
              /\ arg'[1] >= Len(m.slots))
          => /\ result' = "ok"
             /\ GrownByWrite(m, m', arg'[1], arg'[2])
       /\ (pc = "run" /\ PendingStore(m).stores
              /\ PendingStore(m).addr >= PendingStore(m).lenBefore)
          => /\ result' \in {"ok", "pending"}
             /\ GrownByWrite(m, m', PendingStore(m).addr, PendingStore(m).val)
      ]_vars

\* an instruction stored a nonzero value past the end of memory
C14_Witness ==
    /\ RunReturned
    /\ lastStore # <<>>
    /\ lastStore[1] > Len(pre.slots)
    /\ lastStore[2] # 0
    /\ Len(m.slots) = lastStore[1] + 1

\* C15: the memory length never decreases and always equals the larger of the
\* program length and one plus the highest address accessed so far, by
\* decode, operand resolution, stores, get or set.
C15_LengthTracksHighestAccess ==
    [][/\ Len(m'.slots) >= Len(m.slots)
       /\ Len(m'.slots) = reach'
      ]_vars

\* a run grew the memory by reading only
C15_Witness ==
    /\ RunReturned
    /\ lastStore = <<>>
    /\ Len(m.slots) > Len(pre.slots)
    /\ Len(m.slots) = reach

\* C16: get of a non-negative address succeeds and returns the cell's content;
\* at or past the end of memory it returns 0 and grows the memory to include
\* the address; after a set or an instruction stored v there it returns v.
C16_GetGrowsAndReadsBack ==
    (lastOp = "get" /\ arg[1] >= 0) =>
        /\ result = "ok"
        /\ ret = <<CellOrZero(pre, arg[1])>>
        /\ SameContents(pre, m)
        /\ arg[1] >= Len(pre.slots) => (ret = <<0>> /\ Len(m.slots) = arg[1] + 1)
        /\ arg[1] < Len(pre.slots) => m = pre
        /\ (lastStore # <<>> /\ lastStore[1] = arg[1]) => ret = <<lastStore[2]>>

\* get read back a nonzero value stored at that address
C16_Witness ==
    /\ lastOp = "get"
    /\ lastStore # <<>>
    /\ lastStore[1] = arg[1]
    /\ ret = <<lastStore[2]>>
    /\ lastStore[2] # 0

\* C17: every address read or written is a valid index when it is accessed:
\* no operation ever returns OutOfRange.
C17_NeverOutOfRange == result # "OutOfRange"

\* get succeeded on an address past the end of memory
C17_Witness ==
    /\ lastOp = "get"
    /\ result = "ok"
    /\ arg[1] > Len(pre.slots)
    /\ Len(m.slots) = arg[1] + 1

----
\* The relative base.

\* the machine is Running at a RelativeBaseOffset word, read off the memory
Adjusting(mach) ==
    /\ mach.state = "Running"
    /\ CellOrZero(mach, mach.pointer) % 100 = 9
    /\ CellOrZero(mach, mach.pointer) \div 100 \in {0, 1, 2}

\* the value its parameter resolves to
Adjustment(mach) ==
    LET mode == CellOrZero(mach, mach.pointer) \div 100
        raw == CellOrZero(mach, mach.pointer + 1)
        address == IF mode = 2 THEN mach.relative_base + raw ELSE raw
    IN IF mode = 1 THEN raw
       ELSE IF address < 0 THEN 0 ELSE CellOrZero(mach, address)

\* C28: the relative base starts at 0 and is changed only by a completed
\* RelativeBaseOffset instruction, which adds its resolved parameter; every
\* other instruction and every caller operation leaves it unchanged.
C28_RelativeBaseOnlyAdjusted ==
    /\ m.relative_base = 0
    /\ [][IF pc = "run" /\ Adjusting(m) /\ result' \in {"ok", "pending"}
          THEN m'.relative_base = m.relative_base + Adjustment(m)
          ELSE m'.relative_base = m.relative_base
         ]_vars

\* two adjustments have added up, the second with a Relative parameter
C28_Witness ==
    /\ RunReturned
    /\ result = "ok"
    /\ m.state = "Halted"
    /\ m.relative_base = 212

----
\* The single machine of Spec, left alone while a scenario below runs.

mainVars == <<m, pc, lastOp, arg, ret, result, pre, drained, inputsDone,
              readsSinceRun, cellOps, reach, lastStore, failed>>

MainParked ==
    /\ m = from_slots(<<99>>)
    /\ pc = "idle"
    /\ lastOp = "from_slots"
    /\ arg = <<>>
    /\ ret = <<>>
    /\ result = "ok"
    /\ pre = m
    /\ drained = <<>>
    /\ inputsDone = 0
    /\ readsSinceRun = 0
    /\ cellOps = 0
    /\ reach = Len(m.slots)
    /\ lastStore = <<>>
    /\ failed = "none"

----
\* Decoding one instruction word: a machine is built whose first cell is the
\* word, and is either decoded (read_instruction) or run for one pass of the
\* loop of Machine::run.

MaxModeInt == 1022
MaxNegative == 120

\* every word with mode digits up to MaxModeInt and any two opcode digits,
\* and the negative words down to -MaxNegative
DecodeWords == ((0 - MaxNegative)..(0 - 1)) \cup (0..(100 * MaxModeInt + 99))

\* the word followed by three distinct words for its parameters
DecodeProgram(word) == <<word, 11, 12, 13>>

InitDecode ==
    /\ MainParked
    /\ dup = DupParked
    /\ exe = ExeParked
    /\ det = DetParked
    /\ txt = TxtParked
    /\ wide = WideParked
    /\ ring = RingParked
    /\ two = TwoParked
    /\ dec \in {[phase |-> "loaded", word |-> w, m |-> from_slots(DecodeProgram(w)),
                 err |-> "none", instruction |-> NoInstruction] : w \in DecodeWords}

\* read_instruction on the loaded machine
DecodeWord ==
    /\ dec.phase = "loaded"
    /\ \E d \in {read_instruction(dec.m)} :
          dec' = [dec EXCEPT !.phase = "decoded", !.m = d.m, !.err = d.err,
                             !.instruction = d.instruction]
    /\ UNCHANGED <<mainVars, dup, exe, det, txt, wide, ring, two>>

\* one pass of the loop of Machine::run on the loaded machine
DecodeRun ==
    /\ dec.phase = "loaded"
    /\ \E r \in {run_iteration(dec.m)} :
          dec' = [dec EXCEPT !.phase = "stepped", !.m = r.m, !.err = r.err]
    /\ UNCHANGED <<mainVars, dup, exe, det, txt, wide, ring, two>>

NextDecode == DecodeWord \/ DecodeRun

SpecDecode == InitDecode /\ [][NextDecode]_vars

\* the word has been decoded, by read_instruction alone or inside run
Decoded == dec.phase \in {"decoded", "stepped"}

ModeInt == dec.word \div 100

KnownOpcode == dec.word >= 0 /\ Opcode_from_int(dec.word % 100).err = "none"

HasBadDigit(n) == \E i \in 1..Len(DigitsOf(n)) : DigitsOf(n)[i] > 2

Arity == parameter_count(Opcode_from_int(dec.word % 100).opcode)

\* C18 (as claimed): a word whose mode digits (value / 100) contain a digit
\* other than 0, 1 or 2 fails to decode with InvalidParameterMode.
C18_BadDigitIsInvalidParameterMode ==
    (Decoded /\ dec.word >= 0 /\ HasBadDigit(ModeInt))
        => dec.err = "InvalidParameterMode"

\* C18 (amended): a non-negative word with a recognised opcode whose mode
\* digits contain a digit other than 0, 1 or 2 fails to decode with
\* InvalidModeDigits, and no word fails with InvalidParameterMode.
C18_BadDigitIsInvalidModeDigits ==
    Decoded =>
        /\ (KnownOpcode /\ HasBadDigit(ModeInt)) => dec.err = "InvalidModeDigits"
        /\ dec.err # "InvalidParameterMode"

\* an Add word with a mode digit 3 was rejected
C18_Witness ==
    /\ dec.phase = "decoded"
    /\ dec.word = 301
    /\ dec.err = "InvalidModeDigits"

\* C19 (as claimed): a word with more mode digits than the arity of its
\* opcode, or with four or more mode digits, fails to decode with
\* TooManyParameterModes.
C19_ExcessDigitsIsTooManyParameterModes ==
    (Decoded /\ KnownOpcode /\ Len(DigitsOf(ModeInt)) > Arity)
        => dec.err = "TooManyParameterModes"

\* C19 (amended): a non-negative word with a recognised opcode and one to
\* three mode digits, each 0, 1 or 2, that are more than the arity of the
\* opcode fails to decode with TooManyParameterModes; with four or more mode
\* digits it fails with InvalidModeDigits.
C19_ExcessDigitsUpToThree ==
    (Decoded /\ KnownOpcode /\ Len(DigitsOf(ModeInt)) > Arity) =>
        /\ (Len(DigitsOf(ModeInt)) <= 3 /\ ~HasBadDigit(ModeInt))
              => dec.err = "TooManyParameterModes"
        /\ Len(DigitsOf(ModeInt)) >= 4 => dec.err = "InvalidModeDigits"

\* an Output word with two mode digits was rejected
C19_Witness ==
    /\ dec.phase = "decoded"
    /\ dec.word = 1004
    /\ dec.err = "TooManyParameterModes"

\* C20: a negative word fails to decode with NegativeInstruction, a
\* non-negative word whose last two digits are not 1..9 or 99 fails with
\* InvalidOpcode, and run executes nothing: it returns the same error with
\* the machine as it was loaded.
C20_NegativeAndUnknownOpcode ==
    LET unknown == dec.word >= 0 /\ dec.word % 100 \notin ((1..9) \cup {99}) IN
    (Decoded /\ (dec.word < 0 \/ unknown)) =>
        /\ dec.word < 0 => dec.err = "NegativeInstruction"
        /\ unknown => dec.err = "InvalidOpcode"
        /\ dec.m = from_slots(DecodeProgram(dec.word))

\* run rejected a negative word and a word with an unknown opcode
C20_Witness ==
    /\ dec.phase = "stepped"
    /\ dec.word \in {0 - 1, 1000}
    /\ dec.err \in {"NegativeInstruction", "InvalidOpcode"}
    /\ dec.m.instruction_counter = 0

----
\* Duplicating a machine (#[derive(Clone)] on Machine). The three Vec fields
\* of a machine are buffers on a heap and a machine holds their ids, so that
\* two machines sharing a buffer is something the model can express.

MaxDupOps == 5

DupPrograms == { <<3, 0, 4, 0, 99>>,
                 <<104, 5, 3, 1, 104, 6, 99>>,
                 <<3, 0, 4, 0, 1105, 1, 0>> }
DupInputs == {7}
DupCellAddrs == {1}
DupCellValues == {2}

\* a machine whose Vec fields are the heap buffers s, i and o
HandleOf(mach, s, i, o) ==
    [slots |-> s, input |-> i, output |-> o,
     pointer |-> mach.pointer,
     state |-> mach.state,
     relative_base |-> mach.relative_base,
     input_pointer |-> mach.input_pointer,
     output_pointer |-> mach.output_pointer,
     instruction_counter |-> mach.instruction_counter]

\* the machine a handle denotes
View(heap, h) ==
    [slots |-> heap[h.slots],
     pointer |-> h.pointer,
     state |-> h.state,
     relative_base |-> h.relative_base,
     input_pointer |-> h.input_pointer,
     input |-> heap[h.input],
     output_pointer |-> h.output_pointer,
     output |-> heap[h.output],
     instruction_counter |-> h.instruction_counter]

MachineOf(d, who) == View(d.heap, d.machines[who])

\* machine who becomes mach: its buffers are overwritten in place
Put(d, who, mach) ==
    LET h == d.machines[who] IN
    [d EXCEPT !.heap = [@ EXCEPT ![h.slots] = mach.slots,
                                 ![h.input] = mach.input,
                                 ![h.output] = mach.output],
              !.machines[who] = HandleOf(mach, h.slots, h.input, h.output)]

\* a clone that copies the reference to the memory instead of the memory
clone_shares_slots(heap, h) ==
    [heap |-> heap \o <<heap[h.slots], heap[h.input], heap[h.output]>>,
     handle |-> [h EXCEPT !.input = Len(heap) + 2,
                          !.output = Len(heap) + 3]]

\* the derived Clone: every field is cloned, each Vec into a new buffer
clone(heap, h) ==
    [heap |-> heap \o <<heap[h.slots], heap[h.input], heap[h.output]>>,
     handle |-> [h EXCEPT !.slots = Len(heap) + 1,
                          !.input = Len(heap) + 2,
                          !.output = Len(heap) + 3]]

\* record the call op on machine who
Called(d, op, who) ==
    [d EXCEPT !.last = [op |-> op, on |-> who],
              !.ops = @ + 1,
              !.acted = IF op = "clone" THEN {} ELSE @ \cup {who}]

InitDup ==
    /\ MainParked
    /\ dec = DecParked
    /\ exe = ExeParked
    /\ det = DetParked
    /\ txt = TxtParked
    /\ wide = WideParked
    /\ ring = RingParked
    /\ two = TwoParked
    /\ dup \in {[phase |-> "live",
                 heap |-> <<p, <<>>, <<>>>>,
                 machines |-> <<HandleOf(from_slots(p), 1, 2, 3)>>,
                 last |-> [op |-> "from_slots", on |-> 1],
                 ops |-> 0,
                 acted |-> {}] : p \in DupPrograms}

DupCanCall == dup.phase = "live" /\ dup.ops < MaxDupOps

DupClone ==
    /\ DupCanCall
    /\ Len(dup.machines) = 1
    /\ \E c \in {clone(dup.heap, dup.machines[1])} :
          dup' = Called([dup EXCEPT !.heap = c.heap,
                                    !.machines = Append(@, c.handle)],
                        "clone", 2)
    /\ UNCHANGED <<mainVars, dec, exe, det, txt, wide, ring, two>>

DupWrite ==
    /\ DupCanCall
    /\ \E who \in 1..Len(dup.machines), v \in DupInputs :
          dup' = Called(Put(dup, who, write(MachineOf(dup, who), v)), "write", who)
    /\ UNCHANGED <<mainVars, dec, exe, det, txt, wide, ring, two>>

DupRun ==
    /\ DupCanCall
    /\ \E who \in 1..Len(dup.machines) :
       \E r \in {run(MachineOf(dup, who), MaxInstr)} :
          /\ r.done
          /\ dup' = Called(Put(dup, who, r.m), "run", who)
    /\ UNCHANGED <<mainVars, dec, exe, det, txt, wide, ring, two>>

DupRead ==
    /\ DupCanCall
    /\ \E who \in 1..Len(dup.machines) :
          dup' = Called(Put(dup, who, read(MachineOf(dup, who)).m), "read", who)
    /\ UNCHANGED <<mainVars, dec, exe, det, txt, wide, ring, two>>

DupSet ==
    /\ DupCanCall
    /\ \E who \in 1..Len(dup.machines), a \in DupCellAddrs, v \in DupCellValues :
          dup' = Called(Put(dup, who, set(MachineOf(dup, who), a, v).m), "set", who)
    /\ UNCHANGED <<mainVars, dec, exe, det, txt, wide, ring, two>>

NextDup == DupClone \/ DupWrite \/ DupRun \/ DupRead \/ DupSet

SpecDup == InitDup /\ [][NextDup]_vars

\* C11: a duplicated machine shares nothing with its original: a push, run,
\* drain or write_cell on one of the two leaves the other's memory, pointer,
\* relative base, state and queues unchanged.
C11_DuplicateSharesNothing ==
    [][(dup.phase = "live" /\ Len(dup.machines) = 2 /\ dup'.ops = dup.ops + 1)
          => \A other \in 1..2 :
                other # dup'.last.on
                   => MachineOf(dup', other) = MachineOf(dup, other)
      ]_vars

\* both machines were called after the duplication and have diverged in
\* memory and in output
C11_Witness ==
    /\ dup.phase = "live"
    /\ Len(dup.machines) = 2
    /\ dup.acted = {1, 2}
    /\ MachineOf(dup, 1).slots # MachineOf(dup, 2).slots
    /\ MachineOf(dup, 1).output # MachineOf(dup, 2).output

\* C12: a fresh duplicate has empty queues, whatever the original has been
\* pushed or has output: no unconsumed input, peek() = 0, drain() empty.
C12_DuplicateHasEmptyQueues ==
    (dup.phase = "live" /\ dup.last.op = "clone") =>
        /\ MachineOf(dup, 2).input_pointer >= Len(MachineOf(dup, 2).input)
        /\ peek(MachineOf(dup, 2)) = 0
        /\ read(MachineOf(dup, 2)).val = <<>>

----
\* Executing one instruction: a machine is built whose program sets the
\* relative base and then holds one instruction word with three parameters;
\* the first pass of the loop of Machine::run executes the base adjustment,
\* the second the instruction under test.

ExecOpcodes == (1..9) \cup {99}
ExecBases == {0 - 1, 0, 2}
ExecParams == {0 - 1, 0, 4, 9}
ExecInputs == {<<>>, <<7>>}
\* indexes and the value of the caller's direct get and set
ExecCellIndexes == {0 - 1, 4}
ExecCellValues == {5}

\* the arity table of the instruction set, by opcode number
ArityOfCode(code) ==
    CASE code \in {1, 2, 7, 8} -> 3
      [] code \in {5, 6} -> 2
      [] code \in {3, 4, 9} -> 1
      [] code = 99 -> 0

Pow10(n) == CASE n = 0 -> 1 [] n = 1 -> 10 [] n = 2 -> 100 [] n = 3 -> 1000 [] n = 4 -> 10000

\* every opcode with every string of mode digits 0..2 as long as its arity
ExecModeInts == {a + 10 * b + 100 * c : a \in 0..2, b \in 0..2, c \in 0..2}
ExecWords ==
    UNION {{100 * md + code :
               md \in {x \in ExecModeInts : x < Pow10(ArityOfCode(code))}} :
           code \in ExecOpcodes}

ExecProgram(base, word, p1, p2, p3) == <<109, base, word, p1, p2, p3, 5, 0>>

\* write called once for every value of inputs
RECURSIVE write_all(_, _)
write_all(mach, inputs) ==
    IF inputs = <<>> THEN mach
    ELSE write_all(write(mach, Head(inputs)), Tail(inputs))

InitExec ==
    /\ MainParked
    /\ dup = DupParked
    /\ dec = DecParked
    /\ det = DetParked
    /\ txt = TxtParked
    /\ wide = WideParked
    /\ ring = RingParked
    /\ two = TwoParked
    /\ exe \in {[phase |-> "loaded",
                 m |-> write_all(from_slots(ExecProgram(base, word, p1, p2, p3)), inputs),
                 before |-> from_slots(<<99>>),
                 err |-> "none",
                 op |-> "none",
                 index |-> 0] :
                base \in ExecBases, word \in ExecWords,
                p1 \in ExecParams, p2 \in ExecParams, p3 \in ExecParams,
                inputs \in ExecInputs}

\* the first pass of the loop: the base adjustment
ExecPrologue ==
    /\ exe.phase = "loaded"
    /\ \E r \in {run_iteration(exe.m)} :
          exe' = [exe EXCEPT !.phase = "ready", !.m = r.m, !.err = r.err]
    /\ UNCHANGED <<mainVars, dup, dec, det, txt, wide, ring, two>>

\* the second pass of the loop: the instruction under test
ExecStep ==
    /\ exe.phase = "ready"
    /\ \E r \in {run_iteration(exe.m)} :
          exe' = [exe EXCEPT !.phase = "stepped", !.before = exe.m,
                             !.m = r.m, !.err = r.err]
    /\ UNCHANGED <<mainVars, dup, dec, det, txt, wide, ring, two>>

\* instead of the second pass, the caller calls Machine::get or Machine::set
ExecCell ==
    /\ exe.phase = "ready"
    /\ \E a \in ExecCellIndexes :
          \/ \E r \in {get(exe.m, a)} :
                 exe' = [exe EXCEPT !.phase = "called", !.before = exe.m, !.m = r.m,
                                    !.err = r.err, !.op = "get", !.index = a]
          \/ \E v \in ExecCellValues : \E r \in {set(exe.m, a, v)} :
                 exe' = [exe EXCEPT !.phase = "called", !.before = exe.m, !.m = r.m,
                                    !.err = r.err, !.op = "set", !.index = a]
    /\ UNCHANGED <<mainVars, dup, dec, det, txt, wide, ring, two>>

NextExec == ExecPrologue \/ ExecStep \/ ExecCell

SpecExec == InitExec /\ [][NextExec]_vars

\* The instruction under test, read off the machine as it was before the
\* step, by the rules of the instruction set.
Stepped == exe.phase = "stepped"
Completed == Stepped /\ exe.err = "none"
Code == Cell(exe.before, exe.before.pointer) % 100
ModeDigit(i) == (Cell(exe.before, exe.before.pointer) \div Pow10(i + 1)) % 10
Raw(i) == Cell(exe.before, exe.before.pointer + i)
\* the address a Positional or Relative parameter denotes
AddressOf(i) ==
    IF ModeDigit(i) = 2 THEN exe.before.relative_base + Raw(i) ELSE Raw(i)
\* the value a read parameter resolves to
Resolved(i) ==
    IF ModeDigit(i) = 1 THEN Raw(i) ELSE CellOrZero(exe.before, AddressOf(i))
ReadFails(i) == ModeDigit(i) # 1 /\ AddressOf(i) < 0
InputAvailable == exe.before.input_pointer < Len(exe.before.input)
NextInput == exe.before.input[exe.before.input_pointer + 1]
\* the cells that existed before the step, except address a, are unchanged
OtherCellsKept(a) ==
    \A i \in 0..(Len(exe.before.slots) - 1) :
        i # a => Cell(exe.m, i) = Cell(exe.before, i)
QueuesKept ==
    /\ exe.m.input = exe.before.input
    /\ exe.m.input_pointer = exe.before.input_pointer
    /\ exe.m.output = exe.before.output
    /\ exe.m.output_pointer = exe.before.output_pointer

\* C21 (as claimed): a storing instruction whose write parameter is in
\* Immediate mode fails with ImmediateModeStorage and stores nothing.
C21_ImmediateWriteFails ==
    (Stepped /\ Code \in {1, 2, 3, 7, 8} /\ ModeDigit(ArityOfCode(Code)) = 1)
        => /\ exe.err = "ImmediateModeStorage"
           /\ SameContents(exe.before, exe.m)

\* C21 (amended): a storing instruction whose write parameter is in Immediate
\* mode stores nothing; it fails with ImmediateModeStorage, except that Add,
\* Multiply, LessThan and Equals fail with NegativeAddress when a read
\* parameter denotes a negative address, and that Input with no input value
\* available blocks without an error.
C21_ImmediateWriteStoresNothing ==
    (Stepped /\ Code \in {1, 2, 3, 7, 8} /\ ModeDigit(ArityOfCode(Code)) = 1)
        => /\ SameContents(exe.before, exe.m)
           /\ exe.m.pointer = exe.before.pointer
           /\ IF Code = 3
              THEN IF InputAvailable
                   THEN exe.err = "ImmediateModeStorage" /\ QueuesKept
                   ELSE exe.err = "none" /\ exe.m.state = "Blocked"
              ELSE IF ReadFails(1) \/ ReadFails(2)
                   THEN exe.err = "NegativeAddress"
                   ELSE exe.err = "ImmediateModeStorage"

\* a Multiply with an Immediate write parameter was rejected
C21_Witness ==
    /\ Stepped
    /\ Code = 2
    /\ ModeDigit(3) = 1
    /\ exe.err = "ImmediateModeStorage"
    /\ Raw(3) = 4

\* C26: an instruction that completes without a taken jump and without
\* blocking leaves the pointer increased by its arity plus one.
C26_PointerAdvancesByArityPlusOne ==
    LET taken == \/ Code = 5 /\ Resolved(1) # 0
                 \/ Code = 6 /\ Resolved(1) = 0
        blocked == Code = 3 /\ ~InputAvailable
    IN (Completed /\ ~taken /\ ~blocked) =>
          /\ exe.m.pointer = exe.before.pointer + ArityOfCode(Code) + 1
          /\ Code \in {1, 2, 7, 8} => exe.m.pointer = exe.before.pointer + 4
          /\ Code \in {5, 6} => exe.m.pointer = exe.before.pointer + 3
          /\ Code \in {3, 4, 9} => exe.m.pointer = exe.before.pointer + 2
          /\ Code = 99 => exe.m.pointer = exe.before.pointer + 1

\* a Halt completed and the pointer is one past it
C26_Witness ==
    /\ Completed
    /\ Code = 99
    /\ exe.m.state = "Halted"
    /\ exe.m.pointer = 3

\* C27: JumpIfTrue sets the pointer to its resolved second parameter exactly
\* when its resolved first parameter is nonzero, JumpIfFalse exactly when it
\* is zero; otherwise the pointer advances by 3; memory contents, relative
\* base and the queues are unchanged.
C27_JumpsSetPointerOrAdvance ==
    (Completed /\ Code \in {5, 6}) =>
        /\ exe.m.pointer = IF (Resolved(1) # 0) = (Code = 5)
                           THEN Resolved(2)
                           ELSE exe.before.pointer + 3
        /\ SameContents(exe.before, exe.m)
        /\ exe.m.relative_base = exe.before.relative_base
        /\ QueuesKept

\* a JumpIfFalse in Relative mode jumped backwards to a target read from memory
C27_Witness ==
    /\ Completed
    /\ Code = 6
    /\ ModeDigit(1) = 2
    /\ ModeDigit(2) # 1
    /\ ~ReadFails(2)
    /\ exe.m.pointer = Resolved(2)
    /\ exe.m.pointer < exe.before.pointer

\* C29: a read parameter p yields memory[p] in Positional mode, p in
\* Immediate mode and memory[relative_base + p] in Relative mode (seen in
\* what Output emits); a write parameter stores at p in Positional mode and at
\* relative_base + p in Relative mode (seen in where Input stores).
C29_OperandsFollowMode ==
    /\ (Stepped /\ Code = 4) =>
           IF ReadFails(1)
           THEN exe.err = "NegativeAddress" /\ exe.m.output = exe.before.output
           ELSE exe.err = "none"
                /\ exe.m.output = Append(exe.before.output, Resolved(1))
    /\ (Stepped /\ Code = 3 /\ InputAvailable /\ ModeDigit(1) # 1) =>
           IF AddressOf(1) < 0
           THEN exe.err = "NegativeAddress" /\ SameContents(exe.before, exe.m)
           ELSE exe.err = "none"
                /\ Cell(exe.m, AddressOf(1)) = NextInput
                /\ OtherCellsKept(AddressOf(1))
                /\ Len(exe.m.slots) = Larger(Len(exe.before.slots), AddressOf(1) + 1)

\* an Input in Relative mode stored its value at relative base + parameter,
\* away from the parameter's own value
C29_Witness ==
    /\ Completed
    /\ Code = 3
    /\ ModeDigit(1) = 2
    /\ exe.before.relative_base = 2
    /\ Raw(1) = 4
    /\ Cell(exe.m, 6) = 7
    /\ Cell(exe.m, 4) # 7

\* C30: Add, Multiply, LessThan and Equals write a + b, a * b, (1 if a < b
\* else 0), (1 if a = b else 0) of their resolved first two parameters at the
\* address of the third, and change no other existing cell, nor the relative
\* base, nor the queues.
C30_ArithmeticAndComparison ==
    LET a == Resolved(1)
        b == Resolved(2)
        value == CASE Code = 1 -> a + b
                   [] Code = 2 -> a * b
                   [] Code = 7 -> IF a < b THEN 1 ELSE 0
                   [] Code = 8 -> IF a = b THEN 1 ELSE 0
    IN (Completed /\ Code \in {1, 2, 7, 8}) =>
          /\ Cell(exe.m, AddressOf(3)) = value
          /\ OtherCellsKept(AddressOf(3))
          /\ exe.m.relative_base = exe.before.relative_base
          /\ QueuesKept

\* a LessThan of two equal operands wrote 0 over a nonzero cell
C30_Witness ==
    /\ Completed
    /\ Code = 7
    /\ Resolved(1) = Resolved(2)
    /\ Resolved(1) # 0
    /\ CellOrZero(exe.before, AddressOf(3)) # 0
    /\ Cell(exe.m, AddressOf(3)) = 0

----
\* Determinism of run: two machines built from the same program are driven
\* separately by the caller, and whenever they have come to agree on memory,
\* pointer, relative base, state and queues, run can be called on both.

MaxDetOps == 4

DetPrograms == { <<3, 9, 4, 9, 1105, 1, 0>>,
                 <<3, 9, 1001, 9, 1, 9, 4, 9, 99>> }
DetInputs == {5, 7}
DetCellAddrs == {9}
DetCellValues == {5}

\* the values pushed and not yet consumed
PendingInput(mach) == SubSeq(mach.input, mach.input_pointer + 1, Len(mach.input))
\* the values emitted and not yet drained
PendingOutput(mach) == SubSeq(mach.output, mach.output_pointer + 1, Len(mach.output))

\* the same memory, pointer, relative base, state and queue contents
Alike(a, b) ==
    /\ a.slots = b.slots
    /\ a.pointer = b.pointer
    /\ a.relative_base = b.relative_base
    /\ a.state = b.state
    /\ PendingInput(a) = PendingInput(b)
    /\ PendingOutput(a) = PendingOutput(b)

InitDet ==
    /\ MainParked
    /\ dup = DupParked
    /\ dec = DecParked
    /\ exe = ExeParked
    /\ txt = TxtParked
    /\ wide = WideParked
    /\ ring = RingParked
    /\ two = TwoParked
    /\ det \in {[phase |-> "driving",
                 machines |-> <<from_slots(p), from_slots(p)>>,
                 calls |-> <<0, 0>>,
                 before |-> <<from_slots(p), from_slots(p)>>,
                 errs |-> <<"none", "none">>] : p \in DetPrograms}

DetCanCall(who) == det.phase = "driving" /\ det.calls[who] < MaxDetOps

\* machine who has become mach by one more call
DetCalled(who, mach) ==
    [det EXCEPT !.machines[who] = mach, !.calls[who] = @ + 1]

DetWrite ==
    /\ \E who \in 1..2, v \in DetInputs :
          /\ DetCanCall(who)
          /\ det' = DetCalled(who, write(det.machines[who], v))
    /\ UNCHANGED <<mainVars, dup, dec, exe, txt, wide, ring, two>>

DetRun ==
    /\ \E who \in 1..2 :
          /\ DetCanCall(who)
          /\ \E r \in {run(det.machines[who], MaxInstr)} :
                r.done /\ det' = DetCalled(who, r.m)
    /\ UNCHANGED <<mainVars, dup, dec, exe, txt, wide, ring, two>>

DetRead ==
    /\ \E who \in 1..2 :
          /\ DetCanCall(who)
          /\ det' = DetCalled(who, read(det.machines[who]).m)
    /\ UNCHANGED <<mainVars, dup, dec, exe, txt, wide, ring, two>>

DetSet ==
    /\ \E who \in 1..2, a \in DetCellAddrs, v \in DetCellValues :
          /\ DetCanCall(who)
          /\ det' = DetCalled(who, set(det.machines[who], a, v).m)
    /\ UNCHANGED <<mainVars, dup, dec, exe, txt, wide, ring, two>>

\* run is called on each of two machines that agree
DetRunBoth ==
    /\ det.phase = "driving"
    /\ Alike(det.machines[1], det.machines[2])
    /\ \E r1 \in {run(det.machines[1], MaxInstr)} :
       \E r2 \in {run(det.machines[2], MaxInstr)} :
          /\ r1.done
          /\ r2.done
          /\ det' = [det EXCEPT !.phase = "compared",
                                !.before = det.machines,
                                !.machines = <<r1.m, r2.m>>,
                                !.errs = <<r1.err, r2.err>>]
    /\ UNCHANGED <<mainVars, dup, dec, exe, txt, wide, ring, two>>

NextDet == DetWrite \/ DetRun \/ DetRead \/ DetSet \/ DetRunBoth

SpecDet == InitDet /\ [][NextDet]_vars

\* C22: run is deterministic: two machines with identical memory, pointer,
\* relative base, state and queues, each given run(), end with identical
\* memory, output, state, pointer and relative base and the same Ok or error
\* result; when their queues were identical down to the values already
\* consumed, so are the queues afterwards.
C22_RunIsDeterministic ==
    det.phase = "compared" =>
        /\ det.errs[1] = det.errs[2]
        /\ Alike(det.machines[1], det.machines[2])
        /\ (/\ det.before[1].input = det.before[2].input
            /\ det.before[1].output = det.before[2].output
            /\ det.before[1].input_pointer = det.before[2].input_pointer
            /\ det.before[1].output_pointer = det.before[2].output_pointer)
           => /\ det.machines[1].input = det.machines[2].input
              /\ det.machines[1].output = det.machines[2].output
              /\ det.machines[1].input_pointer = det.machines[2].input_pointer
              /\ det.machines[1].output_pointer = det.machines[2].output_pointer

\* run was called on two machines that agreed but had come there by different
\* calls (one had consumed and emitted a value before, the other had been
\* patched), and both consumed an input and emitted an output
C22_Witness ==
    /\ det.phase = "compared"
    /\ det.before[1].instruction_counter # det.before[2].instruction_counter
    /\ det.before[1].input # det.before[2].input
    /\ det.machines[1].instruction_counter > det.before[1].instruction_counter + 1
    /\ PendingOutput(det.machines[1]) # <<>>
    /\ det.errs = <<"none", "none">>

----
\* Construction from text (Machine::from_str). A text is a sequence of
\* characters; a token is a sequence of characters too.

MaxTextLen == 5

TextChars == {"0", "7", "-", "+", ",", " ", "x"}
Whitespace == {" ", "\n", "\t"}

\* str::split(","): the pieces between the commas, empty pieces included
RECURSIVE split(_, _, _)
split(input, i, token) ==
    IF i > Len(input) THEN <<token>>
    ELSE IF input[i] = "," THEN <<token>> \o split(input, i + 1, <<>>)
    ELSE split(input, i + 1, Append(token, input[i]))

\* str::trim: leading and trailing whitespace removed
RECURSIVE trim_start(_)
trim_start(token) ==
    IF token # <<>> /\ Head(token) \in Whitespace THEN trim_start(Tail(token)) ELSE token
RECURSIVE trim_end(_)
trim_end(token) ==
    IF token # <<>> /\ token[Len(token)] \in Whitespace
    THEN trim_end(SubSeq(token, 1, Len(token) - 1)) ELSE token
trim(token) == trim_end(trim_start(token))

\* char::to_digit(10); -1 for a character that is not a digit
to_digit(ch) ==
    CASE ch = "0" -> 0 [] ch = "1" -> 1 [] ch = "2" -> 2 [] ch = "3" -> 3
      [] ch = "4" -> 4 [] ch = "5" -> 5 [] ch = "6" -> 6 [] ch = "7" -> 7
      [] ch = "8" -> 8 [] ch = "9" -> 9 [] OTHER -> 0 - 1

\* the digit loop of from_str_radix: the value so far times 10 plus the digit
RECURSIVE accumulate(_, _, _)
accumulate(digits, i, value) ==
    IF i > Len(digits) THEN [ok |-> TRUE, val |-> value]
    ELSE IF to_digit(digits[i]) < 0 THEN [ok |-> FALSE, val |-> 0]
    ELSE accumulate(digits, i + 1, value * 10 + to_digit(digits[i]))

\* from_str_radix that takes the empty string as 0
from_str_radix_empty_is_zero(src) ==
    IF src = <<>> THEN [ok |-> TRUE, val |-> 0]
    ELSE IF Head(src) \in {"+", "-"}
    THEN IF Len(src) = 1 THEN [ok |-> FALSE, val |-> 0]
         ELSE LET r == accumulate(Tail(src), 1, 0) IN
              IF Head(src) = "-" THEN [ok |-> r.ok, val |-> 0 - r.val] ELSE r
    ELSE accumulate(src, 1, 0)

\* isize::from_str_radix(src, 10): an optional sign and at least one digit
\* (texts here are too short for the value to overflow)
from_str_radix(src) ==
    IF src = <<>> THEN [ok |-> FALSE, val |-> 0]
    ELSE IF Head(src) \in {"+", "-"}
    THEN IF Len(src) = 1 THEN [ok |-> FALSE, val |-> 0]
         ELSE LET r == accumulate(Tail(src), 1, 0) IN
              IF Head(src) = "-" THEN [ok |-> r.ok, val |-> 0 - r.val] ELSE r
    ELSE accumulate(src, 1, 0)

\* token_value that converts the token without trimming it
token_value_untrimmed(token) == from_str_radix(token)

\* the scrutinee of the match in from_str's loop
token_value(token) == from_str_radix(trim(token))

NoMachine == [slots |-> <<>>]

\* the loop of from_str over the tokens i .. end
RECURSIVE push_tokens(_, _, _)
push_tokens(tokens, i, slots) ==
    IF i > Len(tokens)
    THEN [err |-> "none", token |-> <<>>, m |-> from_slots(slots)]
    ELSE LET code == token_value(tokens[i]) IN
         IF code.ok
         THEN push_tokens(tokens, i + 1, Append(slots, code.val))
         ELSE [err |-> "NotAnInteger", token |-> tokens[i], m |-> NoMachine]

from_str(input) == push_tokens(split(input, 1, <<>>), 1, <<>>)

\* Texts written out from a list of integers, to be read back.
MaxProgramLen == 3
ProgramValues == {0, 7, 0 - 70, 104}
Paddings == {<<<<>>, <<>>>>, <<<<" ">>, <<>>>>, <<<<>>, <<"\n">>>>, <<<<"\t", " ">>, <<" ">>>>}

DigitChar(d) ==
    CASE d = 0 -> "0" [] d = 1 -> "1" [] d = 2 -> "2" [] d = 3 -> "3" [] d = 4 -> "4"
      [] d = 5 -> "5" [] d = 6 -> "6" [] d = 7 -> "7" [] d = 8 -> "8" [] d = 9 -> "9"

\* the decimal numeral of n
RECURSIVE Numeral(_)
Numeral(n) ==
    IF n < 0 THEN <<"-">> \o Numeral(0 - n)
    ELSE IF n < 10 THEN <<DigitChar(n)>>
    ELSE Append(Numeral(n \div 10), DigitChar(n % 10))

\* the numerals of ints, each between the two paddings, joined by commas
RECURSIVE Render(_, _)
Render(ints, padding) ==
    IF Len(ints) = 1
    THEN padding[1] \o Numeral(ints[1]) \o padding[2]
    ELSE padding[1] \o Numeral(ints[1]) \o padding[2] \o <<",">>
         \o Render(Tail(ints), padding)

\* the sequences over S of length lo .. hi
SeqsOf(S, lo, hi) == UNION {[1..n -> S] : n \in lo..hi}

InitParse ==
    /\ MainParked
    /\ dup = DupParked
    /\ dec = DecParked
    /\ exe = ExeParked
    /\ det = DetParked
    /\ wide = WideParked
    /\ ring = RingParked
    /\ two = TwoParked
    /\ txt \in {[phase |-> "text", input |-> Render(ints, padding), ints |-> ints,
                 rendered |-> TRUE, err |-> "none", token |-> <<>>, m |-> NoMachine] :
                    ints \in SeqsOf(ProgramValues, 1, MaxProgramLen),
                    padding \in Paddings}
             \cup
             {[phase |-> "text", input |-> input, ints |-> <<>>,
               rendered |-> FALSE, err |-> "none", token |-> <<>>, m |-> NoMachine] :
                    input \in SeqsOf(TextChars, 0, MaxTextLen)}

\* Machine::from_str(input)
Parse ==
    /\ txt.phase = "text"
    /\ \E r \in {from_str(txt.input)} :
          txt' = [txt EXCEPT !.phase = "parsed", !.err = r.err,
                             !.token = r.token, !.m = r.m]
    /\ UNCHANGED <<mainVars, dup, dec, exe, det, wide, ring, two>>

NextParse == Parse

SpecParse == InitParse /\ [][NextParse]_vars

\* C23: a machine constructed from a text of comma-separated, optionally
\* whitespace-padded signed integers has exactly those integers as its memory,
\* in order, with pointer 0, relative base 0, state Running and empty queues.
C23_TextRoundTrip ==
    (txt.phase = "parsed" /\ txt.rendered) =>
        /\ txt.err = "none"
        /\ txt.m = from_slots(txt.ints)
        /\ txt.m.slots = txt.ints
        /\ Len(txt.m.slots) = Len(txt.ints)
        /\ txt.m.pointer = 0
        /\ txt.m.relative_base = 0
        /\ txt.m.state = "Running"
        /\ txt.m.input = <<>>
        /\ txt.m.output = <<>>

\* a padded text of three integers, one of them negative, was read back
C23_Witness ==
    /\ txt.phase = "parsed"
    /\ txt.rendered
    /\ Len(txt.input) > 10
    /\ txt.m.slots = <<104, 0 - 70, 7>>
    /\ Head(txt.input) = "\t"

\* The tokens of the input, found by the positions of its commas.
Commas == {i \in 1..Len(txt.input) : txt.input[i] = ","}
\* where token k starts and ends
TokenStart(k) ==
    IF k = 1 THEN 1
    ELSE 1 + CHOOSE i \in Commas : Cardinality({j \in Commas : j <= i}) = k - 1
TokenEnd(k) ==
    IF k = Cardinality(Commas) + 1 THEN Len(txt.input)
    ELSE (CHOOSE i \in Commas : Cardinality({j \in Commas : j <= i}) = k) - 1
Token(k) == SubSeq(txt.input, TokenStart(k), TokenEnd(k))
\* token k is whitespace, an optional sign, one or more digits, whitespace
IsPaddedInteger(k) ==
    \E a \in TokenStart(k)..TokenEnd(k), b \in TokenStart(k)..TokenEnd(k) :
        /\ a <= b
        /\ \A i \in TokenStart(k)..(a - 1) : txt.input[i] \in Whitespace
        /\ \A i \in (b + 1)..TokenEnd(k) : txt.input[i] \in Whitespace
        /\ \A i \in (a + 1)..b : to_digit(txt.input[i]) >= 0
        /\ \/ to_digit(txt.input[a]) >= 0
           \/ txt.input[a] \in {"+", "-"} /\ a < b
BadTokens == {k \in 1..(Cardinality(Commas) + 1) : ~IsPaddedInteger(k)}

\* C24: construction fails with NotAnInteger carrying the text of the leftmost
\* token that is not a signed decimal integer after trimming whitespace, and
\* produces no machine; it succeeds when there is no such token.
C24_FirstBadTokenReported ==
    txt.phase = "parsed" =>
        IF BadTokens = {}
        THEN txt.err = "none" /\ txt.m # NoMachine
        ELSE /\ txt.err = "NotAnInteger"
             /\ txt.m = NoMachine
             /\ \E k \in BadTokens :
                   /\ \A j \in BadTokens : k <= j
                   /\ txt.token = Token(k)

\* the second of three tokens was reported although the third is bad too
C24_Witness ==
    /\ txt.phase = "parsed"
    /\ txt.err = "NotAnInteger"
    /\ txt.input = <<"7", ",", "-", ",", "x">>
    /\ txt.token = <<"-">>

----
\* The width of Value (type Value = isize). An isize is as wide as a pointer
\* of the target the program is built for. A value here is its two's
\* complement bytes, least significant first, so that 64-bit arithmetic can
\* be carried out byte by byte.

\* the pointer widths of the targets Rust builds for
PointerWidths == {16, 32, 64}

\* bytes used for the mathematical value of a sum or product of two operands
ExactBytes == 17

SignByte(v) == IF v[Len(v)] >= 128 THEN 255 ELSE 0
SignExtend(v, n) == [i \in 1..n |-> IF i <= Len(v) THEN v[i] ELSE SignByte(v)]
Low(v, n) == SubSeq(v, 1, n)

\* a + b on bytes of equal length, modulo 256^length
RECURSIVE AddFrom(_, _, _, _)
AddFrom(a, b, i, carry) ==
    IF i > Len(a) THEN <<>>
    ELSE <<(a[i] + b[i] + carry) % 256>>
         \o AddFrom(a, b, i + 1, (a[i] + b[i] + carry) \div 256)
AddBytes(a, b) == AddFrom(a, b, 1, 0)

\* a times one byte d, modulo 256^length
RECURSIVE ScaleFrom(_, _, _, _)
ScaleFrom(a, d, i, carry) ==
    IF i > Len(a) THEN <<>>
    ELSE <<(a[i] * d + carry) % 256>>
         \o ScaleFrom(a, d, i + 1, (a[i] * d + carry) \div 256)

ShiftBytes(v, k) == [i \in 1..Len(v) |-> IF i <= k THEN 0 ELSE v[i - k]]

\* a * b on bytes of equal length, modulo 256^length
RECURSIVE MulFrom(_, _, _)
MulFrom(a, b, j) ==
    IF j > Len(b) THEN [i \in 1..Len(a) |-> 0]
    ELSE AddBytes(ShiftBytes(ScaleFrom(a, b[j], 1, 0), j - 1), MulFrom(a, b, j + 1))
MulBytes(a, b) == MulFrom(a, b, 1)

\* isize::overflowing_add: the wrapped sum and whether it overflowed
overflowing_add(a, b) ==
    LET n == Len(a)
        full(w) == [val |-> Low(w, n), overflow |-> SignExtend(Low(w, n), 2 * n) # w]
    IN full(AddBytes(SignExtend(a, 2 * n), SignExtend(b, 2 * n)))

\* overflowing_mul that multiplies the low halves of its operands only
overflowing_mul_low_halves(a, b) ==
    LET n == Len(a)
        h == n \div 2
        full(w) == [val |-> SignExtend(Low(w, h), n), overflow |-> FALSE]
    IN full(MulBytes(Low(a, h), Low(b, h)))

\* isize::overflowing_mul: the wrapped product and whether it overflowed
overflowing_mul(a, b) ==
    LET n == Len(a)
        full(w) == [val |-> Low(w, n), overflow |-> SignExtend(Low(w, n), 2 * n) # w]
    IN full(MulBytes(SignExtend(a, 2 * n), SignExtend(b, 2 * n)))

\* left + right and left * right on Value: an overflow panics in a build with
\* overflow checks and wraps in a build without
checked_or_wrapped(r, overflow_checks) ==
    IF r.overflow /\ overflow_checks
    THEN [outcome |-> "panic", val |-> r.val]
    ELSE [outcome |-> "ok", val |-> r.val]

\* an integer literal or numeral x as a Value of the given width: rejected
\* (NotAnInteger from from_str, a compile error in a vec!) when it does not fit
value_of_literal(x, bits) ==
    IF SignExtend(Low(x, bits \div 8), Len(x)) = x
    THEN [ok |-> TRUE, val |-> Low(x, bits \div 8)]
    ELSE [ok |-> FALSE, val |-> Low(x, bits \div 8)]

\* operands, as 64-bit patterns: 0, 1, -1, 2, 181, 2^15, 34915192, -34915192,
\* 2^31 - 1, 2^31, -2^31, 3037000499, 3037000500, 2^50, 2^63 - 1, -2^63
WideOperands ==
    { <<0, 0, 0, 0, 0, 0, 0, 0>>,
      <<1, 0, 0, 0, 0, 0, 0, 0>>,
      <<255, 255, 255, 255, 255, 255, 255, 255>>,
      <<2, 0, 0, 0, 0, 0, 0, 0>>,
      <<181, 0, 0, 0, 0, 0, 0, 0>>,
      <<0, 128, 0, 0, 0, 0, 0, 0>>,
      <<120, 195, 20, 2, 0, 0, 0, 0>>,
      <<136, 60, 235, 253, 255, 255, 255, 255>>,
      <<255, 255, 255, 127, 0, 0, 0, 0>>,
      <<0, 0, 0, 128, 0, 0, 0, 0>>,
      <<0, 0, 0, 128, 255, 255, 255, 255>>,
      <<51, 243, 4, 181, 0, 0, 0, 0>>,
      <<52, 243, 4, 181, 0, 0, 0, 0>>,
      <<0, 0, 0, 0, 0, 0, 4, 0>>,
      <<255, 255, 255, 255, 255, 255, 255, 127>>,
      <<0, 0, 0, 0, 0, 0, 0, 128>> }

InitWide ==
    /\ MainParked
    /\ dup = DupParked
    /\ dec = DecParked
    /\ exe = ExeParked
    /\ det = DetParked
    /\ txt = TxtParked
    /\ ring = RingParked
    /\ two = TwoParked
    /\ wide \in {[phase |-> "loaded", bits |-> bits, overflow_checks |-> checks,
                  a |-> SignExtend(a, ExactBytes), b |-> SignExtend(b, ExactBytes),
                  op |-> "none", outcome |-> "none", out |-> <<>>] :
                    bits \in PointerWidths, checks \in BOOLEAN,
                    a \in WideOperands, b \in WideOperands}

\* the program `104,a,99`: the literal a is output
WideOutput ==
    /\ wide.phase = "loaded"
    /\ \E la \in {value_of_literal(wide.a, wide.bits)} :
          wide' = [wide EXCEPT !.phase = "done", !.op = "Output",
                      !.outcome = IF la.ok THEN "ok" ELSE "rejected",
                      !.out = IF la.ok THEN la.val ELSE <<>>]
    /\ UNCHANGED <<mainVars, dup, dec, exe, det, txt, ring, two>>

\* the program `1101,a,b,7,4,7,99,0`: a + b is stored and output
WideAdd ==
    /\ wide.phase = "loaded"
    /\ \E la \in {value_of_literal(wide.a, wide.bits)} :
       \E lb \in {value_of_literal(wide.b, wide.bits)} :
       \E r \in {checked_or_wrapped(overflowing_add(la.val, lb.val),
                                    wide.overflow_checks)} :
          wide' = [wide EXCEPT !.phase = "done", !.op = "Add",
                      !.outcome = IF la.ok /\ lb.ok THEN r.outcome ELSE "rejected",
                      !.out = IF la.ok /\ lb.ok /\ r.outcome = "ok" THEN r.val ELSE <<>>]
    /\ UNCHANGED <<mainVars, dup, dec, exe, det, txt, ring, two>>

\* the program `1102,a,b,7,4,7,99,0`: a * b is stored and output
WideMultiply ==
    /\ wide.phase = "loaded"
    /\ \E la \in {value_of_literal(wide.a, wide.bits)} :
       \E lb \in {value_of_literal(wide.b, wide.bits)} :
       \E r \in {checked_or_wrapped(overflowing_mul(la.val, lb.val),
                                    wide.overflow_checks)} :
          wide' = [wide EXCEPT !.phase = "done", !.op = "Multiply",
                      !.outcome = IF la.ok /\ lb.ok THEN r.outcome ELSE "rejected",
                      !.out = IF la.ok /\ lb.ok /\ r.outcome = "ok" THEN r.val ELSE <<>>]
    /\ UNCHANGED <<mainVars, dup, dec, exe, det, txt, ring, two>>

NextWide == WideOutput \/ WideAdd \/ WideMultiply

SpecWide == InitWide /\ [][NextWide]_vars

\* The mathematical result, and the range of a signed integer of some width.
MathResult ==
    CASE wide.op = "Output" -> wide.a
      [] wide.op = "Add" -> AddBytes(wide.a, wide.b)
      [] wide.op = "Multiply" -> MulBytes(wide.a, wide.b)
MaxOf(bits) ==
    [i \in 1..ExactBytes |->
        IF i < bits \div 8 THEN 255 ELSE IF i = bits \div 8 THEN 127 ELSE 0]
MinOf(bits) ==
    [i \in 1..ExactBytes |->
        IF i < bits \div 8 THEN 0 ELSE IF i = bits \div 8 THEN 128 ELSE 255]
RECURSIVE LessEqFrom(_, _, _)
LessEqFrom(x, y, i) ==
    IF i = 0 THEN TRUE
    ELSE IF x[i] < y[i] THEN TRUE
    ELSE IF x[i] > y[i] THEN FALSE
    ELSE LessEqFrom(x, y, i - 1)
\* x <= y for two's complement numbers of equal length
LessEqSigned(x, y) ==
    LessEqFrom([x EXCEPT ![Len(x)] = (@ + 128) % 256],
               [y EXCEPT ![Len(y)] = (@ + 128) % 256], Len(x))
Within(x, bits) == LessEqSigned(MinOf(bits), x) /\ LessEqSigned(x, MaxOf(bits))

----
\* The instruction a valid word decodes to (SpecDecode).

\* the opcode an opcode number stands for
OpcodeOfCode(code) ==
    CASE code = 1 -> "Add"
      [] code = 2 -> "Multiply"
      [] code = 3 -> "Input"
      [] code = 4 -> "Output"
      [] code = 5 -> "JumpIfTrue"
      [] code = 6 -> "JumpIfFalse"
      [] code = 7 -> "LessThan"
      [] code = 8 -> "Equals"
      [] code = 9 -> "RelativeBaseOffset"
      [] code = 99 -> "Halt"

\* the mode a mode digit stands for
ModeOfDigit(d) ==
    CASE d = 0 -> "Positional"
      [] d = 1 -> "Immediate"
      [] d = 2 -> "Relative"

\* C31: a word w that decodes without error gives the opcode w mod 100 and
\* exactly arity(opcode) parameters, the words that follow w in memory in
\* order, where parameter i (from 0) has the mode of the i-th decimal digit of
\* w / 100 counted from the least significant, Positional when it is absent.
C31_DecodeGivesOpcodeAndModes ==
    (dec.phase = "decoded" /\ dec.err = "none") =>
        LET code == dec.word % 100
            ps == dec.instruction.parameters
        IN /\ code \in ExecOpcodes
           /\ dec.instruction.opcode = OpcodeOfCode(code)
           /\ Len(ps) = ArityOfCode(code)
           /\ \A i \in 0..(Len(ps) - 1) :
                  /\ ps[i + 1].value = DecodeProgram(dec.word)[i + 2]
                  /\ ps[i + 1].mode =
                         IF i < Len(DigitsOf(ModeInt))
                         THEN ModeOfDigit((ModeInt \div Pow10(i)) % 10)
                         ELSE "Positional"

\* the Multiply word 1002 gave Positional, Immediate and, for the absent
\* third digit, Positional
C31_Witness ==
    /\ dec.phase = "decoded"
    /\ dec.word = 1002
    /\ dec.err = "none"
    /\ dec.instruction =
           [opcode |-> "Multiply",
            parameters |-> <<[value |-> 11, mode |-> "Positional"],
                             [value |-> 12, mode |-> "Immediate"],
                             [value |-> 13, mode |-> "Positional"]>>]

----
\* The output queue (Spec).

\* this pass of the loop of run executes an Output instruction to completion
OutputCompletes ==
    /\ pc = "run"
    /\ AboutToExecute(m, "Output")
    /\ result' \in {"ok", "pending"}

\* C32: an Output instruction that completes appends exactly one value, its
\* resolved parameter, to the end of the output vector and changes no memory
\* cell that existed before it; no other step (instruction, write, peek,
\* read, get, set) changes the output vector at all, so values once produced
\* are never modified or reordered.
C32_OutputAppendsOneValue ==
    [][IF OutputCompletes
       THEN /\ m'.output =
                  Append(m.output,
                         Operand(m, read_instruction(m).instruction.parameters[1]))
            /\ \A i \in 0..(Len(m.slots) - 1) : Cell(m', i) = Cell(m, i)
       ELSE m'.output = m.output
      ]_vars

\* a run appended a value behind one that an earlier run had produced and a
\* read had already returned
C32_Witness ==
    /\ RunReturned
    /\ Len(pre.output) >= 1
    /\ pre.output_pointer = Len(pre.output)
    /\ Len(m.output) = Len(pre.output) + 1
    /\ SubSeq(m.output, 1, Len(pre.output)) = pre.output
    /\ m.output[Len(m.output)] # m.output[1]

----
\* What Blocked means (Spec).

\* mach is Blocked with an Input word at its pointer and nothing left to consume
BlockedAtInput(mach) ==
    /\ mach.state = "Blocked"
    /\ mach.pointer < Len(mach.slots)
    /\ Cell(mach, mach.pointer) % 100 = 3
    /\ mach.input_pointer >= Len(mach.input)

\* C33: whenever the state is Blocked and the caller has not called set since
\* the machine blocked, the word at the pointer is an Input instruction
\* (word mod 100 = 3) and no pushed value is unconsumed. Stated on steps: a
\* step into Blocked establishes it, and every step other than set that
\* leaves the machine Blocked preserves it.
C33_BlockedMeansInputStarved ==
    [][(/\ m'.state = "Blocked"
        /\ m.state = "Blocked" => BlockedAtInput(m)
        /\ lastOp' # "set")
       => BlockedAtInput(m')
      ]_vars

\* a machine that consumed one value and blocked at its second Input is still
\* Blocked after the caller read a cell
C33_Witness ==
    /\ lastOp = "get"
    /\ m.state = "Blocked"
    /\ m.pointer > 0
    /\ m.input_pointer = 1
    /\ Len(m.input) = 1
    /\ Cell(m, m.pointer) % 100 = 3

----
\* Errors of run (Spec).

\* C34: after run has returned an operational error, every later run called
\* with no write and no set in between fails on its first pass with the same
\* error, completes no instruction and leaves the memory contents alone.
C34_ErrorsAreUnrecoverable ==
    [][(pc = "run" /\ failed # "none")
       => /\ pc' = "idle"
          /\ result' = failed
          /\ m'.instruction_counter = m.instruction_counter
          /\ SameContents(m, m')
      ]_vars

\* a run output a value and failed; the caller read the value, and the next
\* run failed in the same way without executing anything
C34_Witness ==
    /\ RunReturned
    /\ result = "ImmediateModeStorage"
    /\ failed = result
    /\ m.output = <<1>>
    /\ pre.output_pointer = 1
    /\ pre.instruction_counter = 1
    /\ m.instruction_counter = 1

----
\* Negative addresses (SpecExec).

\* the instruction under test is a jump whose condition holds
JumpTaken ==
    /\ Code \in {5, 6}
    /\ ~ReadFails(1)
    /\ (Resolved(1) # 0) = (Code = 5)

\* the instruction under test performs an access at a negative address: an
\* operand it resolves, the cell it stores to, or the target it jumps to
NegativeAccess ==
    CASE Code \in {1, 2, 7, 8} ->
             ReadFails(1) \/ ReadFails(2) \/ (ModeDigit(3) # 1 /\ AddressOf(3) < 0)
      [] Code = 3 -> InputAvailable /\ ModeDigit(1) # 1 /\ AddressOf(1) < 0
      [] Code \in {4, 9} -> ReadFails(1)
      [] Code \in {5, 6} ->
             \/ ReadFails(1)
             \/ JumpTaken /\ ReadFails(2)
             \/ JumpTaken /\ ~ReadFails(2) /\ Resolved(2) < 0
      [] Code = 99 -> FALSE

\* C35: an access at a negative address (a Positional operand below 0, a
\* Relative operand with relative base + operand below 0, a taken jump to a
\* negative target, get or set with a negative index) fails with
\* NegativeAddress, and leaves the memory contents and the pointer unchanged.
C35_NegativeAddressFails ==
    /\ (Stepped /\ NegativeAccess) =>
           /\ exe.err = "NegativeAddress"
           /\ SameContents(exe.before, exe.m)
           /\ exe.m.pointer = exe.before.pointer
    /\ (exe.phase = "called" /\ exe.index < 0) =>
           /\ exe.err = "NegativeAddress"
           /\ SameContents(exe.before, exe.m)
           /\ exe.m.pointer = exe.before.pointer

\* a JumpIfTrue whose condition held was refused its negative target
C35_Witness ==
    /\ Stepped
    /\ Code = 5
    /\ JumpTaken
    /\ ModeDigit(2) = 1
    /\ Raw(2) = 0 - 1
    /\ exe.err = "NegativeAddress"
    /\ exe.m.pointer = 2

----
\* The cursors of the two queues (Spec).

\* C36: in every reachable state the input cursor is at most the number of
\* values pushed and the output cursor at most the number of values produced;
\* no operation decreases either cursor or either queue length.
C36_CursorsWithinQueues ==
    /\ [](/\ m.input_pointer \in 0..Len(m.input)
          /\ m.output_pointer \in 0..Len(m.output))
    /\ [][/\ m'.input_pointer >= m.input_pointer
          /\ m'.output_pointer >= m.output_pointer
          /\ Len(m'.input) >= Len(m.input)
          /\ Len(m'.output) >= Len(m.output)
         ]_vars

\* both cursors have moved and both lag behind their queues: a third value
\* was pushed after two were consumed, and the second output is unread
C36_Witness ==
    /\ lastOp = "write"
    /\ m.input_pointer = 2
    /\ Len(m.input) = 3
    /\ m.output_pointer = 1
    /\ Len(m.output) = 2

----
\* Input with an Immediate write parameter (Spec).

\* the word at the pointer decodes to an Input whose parameter is Immediate
ImmediateInputAt(mach) ==
    LET d == read_instruction(mach) IN
    /\ d.err = "none"
    /\ d.instruction.opcode = "Input"
    /\ d.instruction.parameters[1].mode = "Immediate"

\* C37: an Input instruction with an Immediate write parameter fails with
\* ImmediateModeStorage only when an unconsumed value is available, and then
\* leaves that value unconsumed; with nothing to consume it sets the state to
\* Blocked and run returns Ok, and run keeps returning Ok until a value is
\* pushed.
C37_ImmediateInputBlocksFirst ==
    [][(pc = "run" /\ ImmediateInputAt(m)) =>
          /\ pc' = "idle"
          /\ m'.pointer = m.pointer
          /\ m'.input = m.input
          /\ m'.input_pointer = m.input_pointer
          /\ IF m.state = "Running" /\ m.input_pointer < Len(m.input)
             THEN result' = "ImmediateModeStorage" /\ m'.state = "Running"
             ELSE /\ result' = "ok"
                  /\ m'.state = IF m.state = "Running" THEN "Blocked" ELSE m.state
      ]_vars

\* the machine blocked at the instruction, a value was pushed, and the next
\* run failed with the value still unconsumed
C37_Witness ==
    /\ RunReturned
    /\ result = "ImmediateModeStorage"
    /\ ImmediateInputAt(m)
    /\ m.instruction_counter = 1
    /\ m.input_pointer = 0
    /\ Len(m.input) = 1

----
\* The amplifier ring of day seven (run_amplifiers_looped in days/seven.rs):
\* one machine per phase setting, each a copy of the freshly parsed base
\* machine, polled round-robin by one loop that carries the output of each
\* run to the next machine. run(..).unwrap() and an index out of range
\* panic, which ends the function without a result.

\* most phase settings, and most passes through the loop
MaxAmplifiers == 3
MaxRingRuns == 8

RingSettings == {5, 6}

\* amplifier programs: two rounds of (input + phase); one round; one round
\* with two outputs; halt at once; echo for ever; an Input that cannot
\* store; halt at once on phase 5 and else pass one value on, with a valid
\* and with an invalid word behind the Halt
RingPrograms ==
    { <<3, 20, 3, 21, 1, 21, 20, 21, 4, 21, 1001, 22, 0 - 1, 22, 1005, 22, 2, 99,
        0, 0, 0, 0, 2>>,
      <<3, 11, 3, 12, 1, 11, 12, 12, 4, 12, 99, 0, 0>>,
      <<3, 13, 3, 14, 4, 14, 1, 13, 14, 14, 4, 14, 99, 0, 0>>,
      <<99>>,
      <<3, 9, 4, 9, 1105, 1, 0>>,
      <<103, 0, 99>>,
      <<3, 14, 108, 5, 14, 15, 1005, 15, 13, 3, 14, 4, 14, 99, 0, 0>>,
      <<3, 16, 108, 5, 16, 17, 1005, 17, 13, 3, 16, 4, 16, 99>> }

\* the machines the function starts from: a copy of the base machine for
\* every setting, given its setting, and a 0 for the first
start_machines(base_machine, phase_settings) ==
    LET machines == [k \in 1..Len(phase_settings) |->
                        write(base_machine, phase_settings[k])]
    IN [machines EXCEPT ![1] = write(@, 0)]

\* the for loop over next_inputs, pushing the newest value first
feed_newest_first(machine, next_inputs) == write_all(machine, Reverse(next_inputs))

\* the for loop over next_inputs
feed(machine, next_inputs) == write_all(machine, next_inputs)

\* the condition of the break
loop_breaks(machine, i, length) == machine.state = "Halted" /\ i = length - 1

InitRing ==
    /\ MainParked
    /\ dup = DupParked
    /\ dec = DecParked
    /\ exe = ExeParked
    /\ det = DetParked
    /\ txt = TxtParked
    /\ wide = WideParked
    /\ two = TwoParked
    /\ ring \in {[phase |-> "called",
                  base_machine |-> from_slots(p),
                  phase_settings |-> s,
                  machines |-> <<>>,
                  next_inputs |-> <<>>,
                  i |-> 0,
                  runs |-> 0,
                  result |-> 0] :
                    p \in RingPrograms, s \in SeqsOf(RingSettings, 0, MaxAmplifiers)}

\* the function up to the loop; machines[0] panics when there is no setting
RingStart ==
    /\ ring.phase = "called"
    /\ ring' = IF ring.phase_settings = <<>>
               THEN [ring EXCEPT !.phase = "panicked"]
               ELSE [ring EXCEPT !.phase = "looping",
                                 !.machines = start_machines(ring.base_machine,
                                                             ring.phase_settings)]
    /\ UNCHANGED <<mainVars, dup, dec, exe, det, txt, wide, two>>

\* one pass through the loop: feed, run, read, break or move on
RingPass ==
    /\ ring.phase = "looping"
    /\ ring.runs < MaxRingRuns
    /\ \E r \in {run(feed(ring.machines[ring.i + 1], ring.next_inputs), MaxInstr)} :
          /\ r.done
          /\ IF r.err # "none"
             THEN ring' = [ring EXCEPT !.phase = "panicked", !.runs = @ + 1]
             ELSE \E d \in {read(r.m)} :
                  ring' = [ring EXCEPT
                             !.machines[ring.i + 1] = d.m,
                             !.next_inputs = d.val,
                             !.runs = @ + 1,
                             !.phase = IF loop_breaks(d.m, ring.i, Len(ring.machines))
                                       THEN "exited" ELSE "looping",
                             !.i = IF loop_breaks(d.m, ring.i, Len(ring.machines))
                                   THEN @ ELSE (@ + 1) % Len(ring.machines)]
    /\ UNCHANGED <<mainVars, dup, dec, exe, det, txt, wide, two>>

\* the expression after the loop: the last of next_inputs, a panic if none
RingReturn ==
    /\ ring.phase = "exited"
    /\ ring' = IF ring.next_inputs = <<>>
               THEN [ring EXCEPT !.phase = "panicked"]
               ELSE [ring EXCEPT !.phase = "returned",
                                 !.result = ring.next_inputs[Len(ring.next_inputs)]]
    /\ UNCHANGED <<mainVars, dup, dec, exe, det, txt, wide, two>>

NextRing == RingStart \/ RingPass \/ RingReturn

SpecRing == InitRing /\ [][NextRing]_vars

\* machine j (from 1) is fed by machine Source(j)
Source(j) == IF j = 1 THEN Len(ring.machines) ELSE j - 1
\* what machine j is given before the loop
Initial(j) ==
    IF j = 1 THEN <<ring.phase_settings[1], 0>> ELSE <<ring.phase_settings[j]>>
\* the machine whose latest output next_inputs holds
Producer == IF ring.phase = "looping" THEN Source(ring.i + 1) ELSE ring.i + 1
\* the values read from Source(j) and not yet pushed to machine j
Carried(j) == IF Source(j) = Producer THEN ring.next_inputs ELSE <<>>

\* C38: in the amplifier ring every value output by a machine is pushed to
\* the next machine of the ring exactly once and in the order produced,
\* before that machine runs again; every machine was given its phase setting
\* first, and the first machine a 0 second; and the loop is left only from a
\* pass that ran the last machine and left it Halted.
C38_RingHandsOutputsOn ==
    /\ [](ring.phase \in {"looping", "exited", "returned"} =>
            /\ \A j \in 1..Len(ring.machines) :
                   /\ ring.machines[j].input \o Carried(j)
                          = Initial(j) \o ring.machines[Source(j)].output
                   /\ ring.machines[j].input[1] = ring.phase_settings[j]
            /\ ring.machines[1].input[2] = 0
            /\ ring.phase # "looping" =>
                   /\ ring.i = Len(ring.machines) - 1
                   /\ ring.machines[Len(ring.machines)].state = "Halted")
    /\ [][/\ (ring.phase = "looping" /\ ring'.phase \in {"looping", "exited"}
               /\ ring'.runs # ring.runs)
              => ring'.machines[ring.i + 1].input
                    = Initial(ring.i + 1) \o ring.machines[Source(ring.i + 1)].output
          /\ (ring.phase # "exited" /\ ring'.phase = "exited")
              => /\ ring.phase = "looping"
                 /\ ring.i = Len(ring.machines) - 1
                 /\ ring'.runs = ring.runs + 1
         ]_vars

\* two amplifiers went round twice: each received the other's two outputs
\* one at a time, and the loop ended with the second machine Halted
C38_Witness ==
    /\ ring.phase = "returned"
    /\ ring.runs = 4
    /\ ring.machines[1].input = <<5, 0, 11>>
    /\ ring.machines[2].input = <<6, 5, 16>>
    /\ ring.machines[2].output = <<11, 22>>
    /\ ring.result = 22

----
\* The machine of day two (days/two.rs) beside the Intcode machine. The day-two
\* machine holds usize cells, the Intcode machine isize cells (type Value),
\* both as wide as a pointer of the target. Cells are bytes, least significant
\* first, as in the width scenario above; pointers and lengths stay small and
\* are plain numbers. Of the Intcode machine only what the words 1, 2 and 99
\* need is repeated here on byte values; a run that meets another word leaves
\* this scenario (outcome "other").

\* most instructions either machine executes
MaxTwoSteps == 4

ZeroExtend(v, n) == [i \in 1..n |-> IF i <= Len(v) THEN v[i] ELSE 0]
ZeroValue(n) == [i \in 1..n |-> 0]

\* the numeral of a number below 65536, as an 8-byte literal
Lit(k) == <<k % 256, (k \div 256) % 256, 0, 0, 0, 0, 0, 0>>

\* a cell as an index into a Vec: an exact number below 65536, and 65536
\* for every cell that is larger
IndexOf(v) == IF \A i \in 3..Len(v) : v[i] = 0 THEN v[1] + 256 * v[2] ELSE 65536

\* usize::from_str_radix on a numeral whose value is x
usize_of_literal(x, bits) ==
    IF ZeroExtend(Low(x, bits \div 8), Len(x)) = x
    THEN [ok |-> TRUE, val |-> Low(x, bits \div 8)]
    ELSE [ok |-> FALSE, val |-> Low(x, bits \div 8)]

\* usize::overflowing_add: the wrapped sum and whether it overflowed
usize_overflowing_add(a, b) ==
    LET n == Len(a)
        full(w) == [val |-> Low(w, n), overflow |-> ZeroExtend(Low(w, n), 2 * n) # w]
    IN full(AddBytes(ZeroExtend(a, 2 * n), ZeroExtend(b, 2 * n)))

\* usize::overflowing_mul: the wrapped product and whether it overflowed
usize_overflowing_mul(a, b) ==
    LET n == Len(a)
        full(w) == [val |-> Low(w, n), overflow |-> ZeroExtend(Low(w, n), 2 * n) # w]
    IN full(MulBytes(ZeroExtend(a, 2 * n), ZeroExtend(b, 2 * n)))

\* Opcodes::from_int with the arms of Add and Multiply exchanged
Opcodes_from_int_exchanged(i) ==
    CASE IndexOf(i) = 1 -> [err |-> "none", opcode |-> "Multiply"]
      [] IndexOf(i) = 2 -> [err |-> "none", opcode |-> "Add"]
      [] IndexOf(i) = 99 -> [err |-> "none", opcode |-> "Halt"]
      [] OTHER -> [err |-> "InvalidOpcode", opcode |-> "none"]

\* Opcodes::from_int of day two
Opcodes_from_int(i) ==
    CASE IndexOf(i) = 1 -> [err |-> "none", opcode |-> "Add"]
      [] IndexOf(i) = 2 -> [err |-> "none", opcode |-> "Multiply"]
      [] IndexOf(i) = 99 -> [err |-> "none", opcode |-> "Halt"]
      [] OTHER -> [err |-> "InvalidOpcode", opcode |-> "none"]

\* Machine::get of day two
two_get(mach, index) ==
    IF index < Len(mach.slots)
    THEN [err |-> "none", val |-> mach.slots[index + 1]]
    ELSE [err |-> "OutOfRange", val |-> ZeroValue(1)]

\* Machine::set of day two
two_set(mach, index, new_value) ==
    IF index < Len(mach.slots)
    THEN [m |-> [mach EXCEPT !.slots[index + 1] = new_value], err |-> "none"]
    ELSE [m |-> mach, err |-> "OutOfRange"]

\* what a step of either machine yields: Ok(next), Err(err), a panic, or an
\* instruction of the Intcode machine that this scenario does not repeat
TwoOk(next) == [outcome |-> "ok", err |-> "none", m |-> next]
TwoErr(mach, err) == [outcome |-> "error", err |-> err, m |-> mach]
TwoPanic(mach, what) == [outcome |-> "panic", err |-> what, m |-> mach]
TwoOther(mach) == [outcome |-> "other", err |-> "none", m |-> mach]

\* the Add and Multiply arms of Machine::step of day two
two_arithmetic(mach, opcode, overflow_checks) ==
    LET a1 == two_get(mach, mach.pointer + 1) IN
    IF a1.err # "none" THEN TwoErr(mach, a1.err) ELSE
    LET left == two_get(mach, IndexOf(a1.val)) IN
    IF left.err # "none" THEN TwoErr(mach, left.err) ELSE
    LET a2 == two_get(mach, mach.pointer + 2) IN
    IF a2.err # "none" THEN TwoErr(mach, a2.err) ELSE
    LET right == two_get(mach, IndexOf(a2.val)) IN
    IF right.err # "none" THEN TwoErr(mach, right.err) ELSE
    LET store == two_get(mach, mach.pointer + 3) IN
    IF store.err # "none" THEN TwoErr(mach, store.err) ELSE
    LET r == IF opcode = "Add"
             THEN usize_overflowing_add(left.val, right.val)
             ELSE usize_overflowing_mul(left.val, right.val)
    IN
    IF r.overflow /\ overflow_checks THEN TwoPanic(mach, "overflow") ELSE
    LET s == two_set(mach, IndexOf(store.val), r.val) IN
    IF s.err # "none" THEN TwoErr(mach, s.err)
    ELSE TwoOk([s.m EXCEPT !.pointer = mach.pointer + 4])

\* Machine::step of day two; self.slots[self.pointer] panics out of range
step(mach, overflow_checks) ==
    IF mach.is_halted THEN TwoOk(mach)
    ELSE IF mach.pointer >= Len(mach.slots) THEN TwoPanic(mach, "index out of bounds")
    ELSE LET o == Opcodes_from_int(mach.slots[mach.pointer + 1]) IN
         IF o.err # "none" THEN TwoErr(mach, o.err)
         ELSE IF o.opcode = "Halt" THEN TwoOk([mach EXCEPT !.is_halted = TRUE])
         ELSE two_arithmetic(mach, o.opcode, overflow_checks)

\* Machine::run_to_halt of day two; outcome "unfinished" when it has not
\* returned within fuel further steps
RECURSIVE run_to_halt(_, _, _)
run_to_halt(mach, overflow_checks, fuel) ==
    LET again(next) ==
            IF next.outcome # "ok" \/ next.m.is_halted THEN next
            ELSE IF fuel = 0 THEN [next EXCEPT !.outcome = "unfinished"]
            ELSE run_to_halt(next.m, overflow_checks, fuel - 1)
    IN again(step(mach, overflow_checks))

\* Machine::from_str of day two on the numerals of a program
two_from_str(program, bits) ==
    IF \A i \in 1..Len(program) : usize_of_literal(program[i], bits).ok
    THEN [ok |-> TRUE,
          m |-> [slots |-> [i \in 1..Len(program) |->
                               usize_of_literal(program[i], bits).val],
                 pointer |-> 0,
                 is_halted |-> FALSE]]
    ELSE [ok |-> FALSE, m |-> [slots |-> <<>>, pointer |-> 0, is_halted |-> FALSE]]

\* grow_memory_for on cells of n bytes
wide_grow_memory_for(mach, index) ==
    IF index >= Len(mach.slots)
    THEN [mach EXCEPT !.slots =
             @ \o [i \in 1..(index + 1 - Len(mach.slots)) |-> ZeroValue(mach.bytes)]]
    ELSE mach

\* Machine::get of the Intcode machine at an Address (usize)
wide_get_at(mach, addr) ==
    LET grown(g) == [outcome |-> "ok", err |-> "none", m |-> g, val |-> g.slots[addr + 1]]
    IN grown(wide_grow_memory_for(mach, addr))

\* Machine::get of the Intcode machine at a Value: into_addr refuses a
\* negative one; growth to 65536 cells and beyond is not followed
wide_get(mach, index) ==
    IF SignByte(index) = 255
    THEN [outcome |-> "error", err |-> "NegativeAddress", m |-> mach, val |-> index]
    ELSE IF IndexOf(index) >= 65536
    THEN [outcome |-> "other", err |-> "none", m |-> mach, val |-> index]
    ELSE wide_get_at(mach, IndexOf(index))

\* Machine::set of the Intcode machine at a Value
wide_set(mach, index, new_value) ==
    IF SignByte(index) = 255 THEN TwoErr(mach, "NegativeAddress")
    ELSE IF IndexOf(index) >= 65536 THEN TwoOther(mach)
    ELSE LET stored(g) == TwoOk([g EXCEPT !.slots[IndexOf(index) + 1] = new_value])
         IN stored(wide_grow_memory_for(mach, IndexOf(index)))

\* read_instruction and execute_instruction for the words 1 and 2: three
\* Positional parameters, left + right or left * right stored at the third
wide_arithmetic(mach, code, overflow_checks) ==
    LET p1 == wide_get_at(mach, mach.pointer + 1)
        p2 == wide_get_at(p1.m, mach.pointer + 2)
        p3 == wide_get_at(p2.m, mach.pointer + 3)
        left == wide_get(p3.m, p1.val)
    IN
    IF left.outcome # "ok" THEN [outcome |-> left.outcome, err |-> left.err, m |-> left.m] ELSE
    LET right == wide_get(left.m, p2.val) IN
    IF right.outcome # "ok" THEN [outcome |-> right.outcome, err |-> right.err, m |-> right.m] ELSE
    LET r == checked_or_wrapped(IF code = 1
                                THEN overflowing_add(left.val, right.val)
                                ELSE overflowing_mul(left.val, right.val),
                                overflow_checks)
    IN
    IF r.outcome = "panic" THEN TwoPanic(right.m, "overflow") ELSE
    LET s == wide_set(right.m, p3.val, r.val) IN
    IF s.outcome # "ok" THEN s
    ELSE TwoOk([s.m EXCEPT !.pointer = mach.pointer + 4])

\* one iteration of the loop of Machine::run of the Intcode machine
wide_run_iteration(mach, overflow_checks) ==
    LET decoded(w) ==
            IF SignByte(w.val) = 255 THEN TwoErr(w.m, "NegativeInstruction")
            ELSE IF IndexOf(w.val) = 99
            THEN TwoOk([w.m EXCEPT !.state = "Halted", !.pointer = @ + 1])
            ELSE IF IndexOf(w.val) \in {1, 2}
            THEN wide_arithmetic(w.m, IndexOf(w.val), overflow_checks)
            ELSE TwoOther(w.m)
    IN decoded(wide_get_at(mach, mach.pointer))

\* Machine::run of the Intcode machine; outcome "unfinished" when it has not
\* returned within fuel further iterations
RECURSIVE wide_run(_, _, _)
wide_run(mach, overflow_checks, fuel) ==
    LET again(next) ==
            IF next.outcome # "ok" \/ next.m.state = "Halted" THEN next
            ELSE IF fuel = 0 THEN [next EXCEPT !.outcome = "unfinished"]
            ELSE wide_run(next.m, overflow_checks, fuel - 1)
    IN again(wide_run_iteration(mach, overflow_checks))

\* Machine::from_str of the Intcode machine on the numerals of a program;
\* bytes is the size of a Value, for the zeros that memory grows by
wide_from_str(program, bits) ==
    LET value(x) == value_of_literal(ZeroExtend(x, Len(x) + 1), bits) IN
    IF \A i \in 1..Len(program) : value(program[i]).ok
    THEN [ok |-> TRUE,
          m |-> [slots |-> [i \in 1..Len(program) |-> value(program[i]).val],
                 pointer |-> 0,
                 state |-> "Running",
                 bytes |-> bits \div 8]]
    ELSE [ok |-> FALSE,
          m |-> [slots |-> <<>>, pointer |-> 0, state |-> "Running", bytes |-> bits \div 8]]

\* programs for both machines, as numerals: the example of day two; sums and
\* products that pass 2^15, 2^31 and 2^63 but not 2^16, 2^32 and 2^64, and
\* some that pass those; a program that stores beyond its end, one with a
\* word that only the Intcode machine knows, one that runs off its end
TwoPrograms ==
    { <<Lit(1), Lit(9), Lit(10), Lit(3), Lit(2), Lit(3), Lit(11), Lit(0),
        Lit(99), Lit(30), Lit(40), Lit(50)>>,
      <<Lit(1), Lit(0), Lit(0), Lit(0), Lit(99)>>,
      <<Lit(99)>>,
      <<Lit(2), Lit(5), Lit(5), Lit(0), Lit(99), Lit(200)>>,
      <<Lit(2), Lit(5), Lit(5), Lit(0), Lit(99), Lit(50000)>>,
      <<Lit(2), Lit(5), Lit(5), Lit(0), Lit(99), <<52, 243, 4, 181, 0, 0, 0, 0>> >>,
      <<Lit(1), Lit(5), Lit(5), Lit(0), Lit(99), <<0, 0, 0, 0, 0, 0, 0, 64>> >>,
      <<Lit(2), Lit(5), Lit(5), Lit(0), Lit(99), <<0, 0, 0, 0, 1, 0, 0, 0>> >>,
      <<Lit(2), Lit(5), Lit(5), Lit(0), Lit(99), Lit(256)>>,
      <<Lit(2), Lit(9), Lit(9), Lit(9), Lit(1), Lit(9), Lit(10), Lit(10),
        Lit(99), Lit(200), Lit(1)>>,
      <<Lit(1), Lit(0), Lit(0), Lit(99)>>,
      <<Lit(1101), Lit(1), Lit(1), Lit(0), Lit(99)>>,
      <<Lit(1), Lit(0), Lit(0), Lit(0)>>,
      <<Lit(2), Lit(5), Lit(5), Lit(5), Lit(99), <<0, 0, 0, 0, 0, 0, 0, 128>> >> }

NotRun(mach) == [outcome |-> "loaded", err |-> "none", m |-> mach]

InitTwo ==
    /\ MainParked
    /\ dup = DupParked /\ dec = DecParked /\ exe = ExeParked /\ det = DetParked
    /\ txt = TxtParked /\ wide = WideParked /\ ring = RingParked
    /\ \E program \in TwoPrograms, bits \in PointerWidths, overflow_checks \in BOOLEAN :
           two = [phase |-> "given",
                  program |-> program,
                  bits |-> bits,
                  overflow_checks |-> overflow_checks,
                  day_two |-> NotRun(two_from_str(<<>>, bits).m),
                  intcode |-> NotRun(wide_from_str(<<>>, bits).m)]

\* both machines are built from the same text
TwoFromStr ==
    /\ two.phase = "given"
    /\ \E d \in {two_from_str(two.program, two.bits)},
          i \in {wide_from_str(two.program, two.bits)} :
           two' = IF d.ok /\ i.ok
                  THEN [two EXCEPT !.phase = "loaded",
                                   !.day_two = NotRun(d.m),
                                   !.intcode = NotRun(i.m)]
                  ELSE [two EXCEPT !.phase = "rejected"]
    /\ UNCHANGED <<mainVars, dup, dec, exe, det, txt, wide, ring>>

\* machine.run_to_halt() on the day-two machine
TwoRunToHalt ==
    /\ two.phase = "loaded"
    /\ two.day_two.outcome = "loaded"
    /\ \E r \in {run_to_halt(two.day_two.m, two.overflow_checks, MaxTwoSteps)} :
           two' = [two EXCEPT !.day_two = r]
    /\ UNCHANGED <<mainVars, dup, dec, exe, det, txt, wide, ring>>

\* machine.run() on the Intcode machine
TwoRun ==
    /\ two.phase = "loaded"
    /\ two.intcode.outcome = "loaded"
    /\ \E r \in {wide_run(two.intcode.m, two.overflow_checks, MaxTwoSteps)} :
           two' = [two EXCEPT !.intcode = r]
    /\ UNCHANGED <<mainVars, dup, dec, exe, det, txt, wide, ring>>

NextTwo == TwoFromStr \/ TwoRunToHalt \/ TwoRun

SpecTwo == InitTwo /\ [][NextTwo]_vars

----
\* C39

\* both machines have been run on the program
BothRan ==
    /\ two.phase = "loaded"
    /\ two.day_two.outcome # "loaded"
    /\ two.intcode.outcome # "loaded"

\* a usize cell and an isize cell hold the same number
SameNumber(u, v) == u = v /\ SignByte(v) = 0

SameMemory(slots, values) ==
    /\ Len(slots) = Len(values)
    /\ \A i \in 1..Len(slots) : SameNumber(slots[i], values[i])

BothHaltedWithSameMemory ==
    /\ two.day_two.outcome = "ok" /\ two.day_two.m.is_halted
    /\ two.intcode.outcome = "ok" /\ two.intcode.m.state = "Halted"
    /\ SameMemory(two.day_two.m.slots, two.intcode.m.slots)

\* every instruction the program executes is 1, 2 or 99 with its addresses
\* inside memory: the day-two machine knows no other word, no negative value
\* and no address outside, so it halts, or it stops on a sum or product
\* that usize cannot hold
InDayTwoSubset ==
    \/ two.day_two.outcome = "ok"
    \/ two.day_two.outcome = "panic" /\ two.day_two.err = "overflow"

\* the operand of the instruction at the pointer of a day-two machine
TwoOperand(mach, k) == two_get(mach, IndexOf(two_get(mach, mach.pointer + k).val)).val

\* the sum or product at the pointer of a day-two machine is above isize::MAX
AboveIsize(mach) ==
    IF Opcodes_from_int(mach.slots[mach.pointer + 1]).opcode = "Add"
    THEN overflowing_add(TwoOperand(mach, 1), TwoOperand(mach, 2)).overflow
    ELSE overflowing_mul(TwoOperand(mach, 1), TwoOperand(mach, 2)).overflow

\* no sum or product of the run of a day-two machine is above isize::MAX
RECURSIVE WithinIsize(_, _)
WithinIsize(mach, fuel) ==
    LET rest(s) ==
            IF s.outcome # "ok" \/ s.m.is_halted THEN TRUE
            ELSE /\ ~AboveIsize(mach)
                 /\ fuel > 0 => WithinIsize(s.m, fuel - 1)
    IN rest(step(mach, FALSE))

\* C39 as stated: on every program of opcodes 1, 2 and 99 in Positional mode
\* with non-negative operands and addresses inside the initial memory, the
\* day-two machine and the Intcode machine both end halted with the same
\* memory.
C39_SameAsDayTwo ==
    (BothRan /\ InDayTwoSubset) => BothHaltedWithSameMemory

\* C39, amended: on every such program none of whose sums and products is
\* above isize::MAX of the target, the day-two machine and the Intcode
\* machine both end halted with the same memory.
C39_SameAsDayTwoWithinIsize ==
    (BothRan /\ InDayTwoSubset
        /\ WithinIsize(two_from_str(two.program, two.bits).m, MaxTwoSteps))
    => BothHaltedWithSameMemory

\* the example of day two has run on both machines of a 64-bit target: 3500
\* in cell 0 and 70 in cell 3 of both
C39_Witness ==
    /\ BothRan
    /\ two.bits = 64
    /\ Len(two.program) = 12
    /\ two.day_two.m.is_halted
    /\ two.intcode.m.state = "Halted"
    /\ two.day_two.m.slots[1] = <<172, 13, 0, 0, 0, 0, 0, 0>>
    /\ two.intcode.m.slots[1] = <<172, 13, 0, 0, 0, 0, 0, 0>>
    /\ two.day_two.m.slots[4] = Lit(70)
    /\ two.intcode.m.slots[4] = Lit(70)

====
